---- MODULE Spec2Model ----
(***************************************************************************)
(* A model of deck_labeler.py: the rate-limited fetcher (HttpClient), the  *)
(* card cache (ScryfallCache), the card data source (ScryfallClient) and   *)
(* the deck resolver (detect_and_resolve_deck and its provider adapters).  *)
(***************************************************************************)
EXTENDS Integers, Sequences, FiniteSets, TLC

(***************************************************************************)
(* The threads of a run.                                                   *)
(***************************************************************************)
\* The analysis threads (App.on_analyze starts one per request).
Threads == {"t1", "t2"}

(***************************************************************************)
(* JSON values, as json.load / resp.json() produce them.  Python's None is *)
(* JNull.                                                                  *)
(***************************************************************************)
JNull == [t |-> "null", v |-> 0]
JInt(n) == [t |-> "int", v |-> n]
JStr(s) == [t |-> "str", v |-> s]
JList(s) == [t |-> "list", v |-> s]
JDict(p) == [t |-> "dict", v |-> p]

\* Python truth value of a JSON value: None, 0, "", [] and {} are false.
Truthy(j) ==
    CASE j.t = "null" -> FALSE
      [] j.t = "int"  -> j.v # 0
      [] j.t = "str"  -> j.v # ""
      [] OTHER        -> Len(j.v) > 0

\* d.get(k) on a dict d: the value of the entry with key k, else None.
DictGet(d, k) ==
    LET hits == {i \in 1..Len(d.v) : d.v[i][1] = k}
    IN IF hits = {} THEN JNull ELSE d.v[CHOOSE i \in hits : TRUE][2]

(***************************************************************************)
(* Card names are strings of characters; ScryfallCache._key trims and      *)
(* lower-cases them.                                                       *)
(***************************************************************************)
Whitespace == {" "}

Lower(c) ==
    CASE c = "A" -> "a"
      [] c = "B" -> "b"
      [] OTHER   -> c

RECURSIVE lstrip(_)
lstrip(s) ==
    IF s # <<>> /\ Head(s) \in Whitespace THEN lstrip(Tail(s)) ELSE s

RECURSIVE rstrip(_)
rstrip(s) ==
    IF s # <<>> /\ s[Len(s)] \in Whitespace
    THEN rstrip(SubSeq(s, 1, Len(s) - 1))
    ELSE s

strip(s) == rstrip(lstrip(s))

lower(s) == [i \in 1..Len(s) |-> Lower(s[i])]

\* _key without the case folding
KeyNoFold(name) == strip(name)

\* ScryfallCache._key
_key(name) == lower(strip(name))

\* The names the analysis threads ask for: two spellings of one card and
\* another card.
Names == { <<" ", "A">>, <<"a">>, <<"b">> }

Keys == { _key(n) : n \in Names }

(***************************************************************************)
(* Program constants.                                                      *)
(***************************************************************************)
\* get_json's retries parameter; fetch_card and the adapters use the default
Retries == 5
\* HttpClient.min_interval, in ticks of the model's clock (0.12 s)
MinInterval == 2
\* the statuses get_json retries
TransientStatuses == {429, 500, 502, 503, 504}

\* {"error": "request_failed"}, get_json's result when the retries run out
Sentinel == JDict(<< <<"error", JStr("request_failed")>> >>)
\* {"error": "HTTP <status>"}
HttpError(status) == JDict(<< <<"error", JStr("HTTP " \o ToString(status))>> >>)

(***************************************************************************)
(* The remote card source.  A response is the status of the reply, whether *)
(* its body decodes as JSON, and the decoded body; status 0 stands for     *)
(* requests.get raising a RequestException (no reply at all).              *)
(***************************************************************************)
Response(status, decodes, body) ==
    [status |-> status, decodes |-> decodes, body |-> body]
NoResponse == Response(-1, FALSE, JNull)
ConnectionError == Response(0, FALSE, JNull)

\* The card object of the remote source for a name, and its error object.
CardRecord(n) ==
    JDict(<< <<"object", JStr("card")>>,
             <<"name", JStr(IF _key(n) = <<"a">> THEN "Alpha" ELSE "Beta")>> >>)
NotFound ==
    JDict(<< <<"object", JStr("error")>>, <<"code", JStr("not_found")>> >>)

\* What the remote source may answer to the exact-name lookup of n.  "up":
\* it knows card a and no other; "down": no request gets through;
\* "unsteady": a request gets through or not; "flaky": any answer at any
\* attempt.
Answers(mode, n) ==
    CASE mode = "up" ->
           IF _key(n) = <<"a">>
           THEN {Response(200, TRUE, CardRecord(n))}
           ELSE {Response(404, TRUE, NotFound)}
      [] mode = "down" -> {ConnectionError}
      [] mode = "unsteady" ->
           {Response(200, TRUE, CardRecord(n)), ConnectionError}
      [] OTHER ->
           { Response(200, TRUE, CardRecord(n)),
             Response(200, TRUE, JDict(<<>>)),
             Response(200, FALSE, JNull),
             Response(404, TRUE, NotFound),
             Response(429, FALSE, JNull),
             Response(500, FALSE, JNull),
             Response(501, FALSE, JNull),
             Response(502, FALSE, JNull),
             Response(503, TRUE, NotFound),
             Response(504, FALSE, JNull),
             ConnectionError }

(***************************************************************************)
(* The cache file and ScryfallCache._load.                                 *)
(***************************************************************************)
NoCards == [k \in {} |-> JNull]
File(state, cards) == [state |-> state, cards |-> cards]
\* ScryfallCache._load: a missing or unreadable file gives an empty cache
_load(file) == IF file.state = "valid" THEN file.cards ELSE NoCards

\* self.data.get("cards", {}).get(self._key(name))
CacheLookup(cards, n) ==
    IF _key(n) \in DOMAIN cards THEN cards[_key(n)] ELSE JNull

\* self.data.setdefault("cards", {})[self._key(name)] = obj
CacheUpdate(cards, n, obj) ==
    [k \in (DOMAIN cards) \cup {_key(n)} |->
        IF k = _key(n) THEN obj ELSE cards[k]]

(***************************************************************************)
(* Deck texts.  A text is a sequence of lines and a line a sequence of     *)
(* words, the pieces between white space; the lines of a text are joined   *)
(* by one newline and the words of a line by one space.  A word carries    *)
(* what the patterns of the parser and of the resolver look at:            *)
(*   k      its shape: "w" a plain word, "num" digits, "nx" digits and x,  *)
(*          "xn" x and digits, "set" (...), "pn" (digits), "br" [...],     *)
(*          "foil" a foil marker, "cmt" a word that begins with // or #,   *)
(*          "meta" a word that is `name:`, `deck:`, `commander:` or        *)
(*          `commanders:`, "url" a word that begins with http(s)://        *)
(*   s      its text, n its number, len its length in characters           *)
(*   alpha  whether its first character is a letter                        *)
(*   comma  whether it ends with a comma, and core its text before it      *)
(*   host   the provider whose needle <host>.com/decks/ it holds, at the   *)
(*          offset at, followed by the deck id                             *)
(***************************************************************************)
Word(k, str, n, len, alpha) ==
    [k |-> k, s |-> str, n |-> n, len |-> len, alpha |-> alpha,
     comma |-> FALSE, core |-> str, host |-> "none", at |-> 0, id |-> ""]
Plain(str, len) == Word("w", str, 0, len, TRUE)
Comma(core, len) ==
    [Plain(core \o ",", len) EXCEPT !.comma = TRUE, !.core = core]
Num(n) == Word("num", ToString(n), n, 1, FALSE)
NumX(n) == Word("nx", ToString(n) \o "x", n, 2, FALSE)
XNum(n) == Word("xn", "x" \o ToString(n), n, 2, TRUE)
Meta(key) == Word("meta", key \o ":", 0, Len(key) + 1, TRUE)
\* a word that holds a provider's needle after `at` characters
Link(k, str, len, host, at, id) ==
    [Word(k, str, 0, len, TRUE) EXCEPT !.host = host, !.at = at, !.id = id]

\* str.lower() of the words the parser compares
LowerS(str) ==
    CASE str = "Commander"  -> "commander"
      [] str = "Commanders" -> "commanders"
      [] str = "Mainboard"  -> "mainboard"
      [] str = "Maindeck"   -> "maindeck"
      [] str = "Main"       -> "main"
      [] str = "Deck"       -> "deck"
      [] str = "Sideboard"  -> "sideboard"
      [] str = "Maybeboard" -> "maybeboard"
      [] str = "Maybe"      -> "maybe"
      [] str = "May"        -> "may"
      [] str = "Be"         -> "be"
      [] str = "Board"      -> "board"
      [] str = "Legendary"  -> "legendary"
      [] str = "Creature"   -> "creature"
      [] str = "Artifact"   -> "artifact"
      [] str = "Land"       -> "land"
      [] str = "Draw"       -> "draw"
      [] str = "You"        -> "you"
      [] str = "Add"        -> "add"
      [] str = "Flying"     -> "flying"
      [] OTHER              -> str

\* line.lower(), as the texts of its words
Low(line) == [i \in 1..Len(line) |-> LowerS(line[i].s)]

\* The texts of the words of a line: a card name, a deck name.
Shown(ws) == [i \in 1..Len(ws) |-> ws[i].s]

(***************************************************************************)
(* clean_card_name                                                         *)
(***************************************************************************)
\* re.sub(r"\s+\(.*\)\s*\d+$", "", name) with open = {"set", "pn"}, and
\* re.sub(r"\s+\[.*\]\s*\d+$", "", name) with open = {"br"}: the line ends
\* with digits after a closing bracket, and is cut at the leftmost opening
\* bracket that follows white space.
StripAnnotation(ws, open) ==
    LET n == Len(ws)
        opens == {i \in 2..n - 1 : ws[i].k \in open}
    IN IF n >= 3 /\ ws[n].k = "num" /\ ws[n - 1].k \in open
       THEN SubSeq(ws, 1, (CHOOSE i \in opens : \A j \in opens : i <= j) - 1)
       ELSE ws

\* re.sub(r"\s+\*?F\*?$", "", name)
StripFoil(ws) ==
    IF Len(ws) >= 2 /\ ws[Len(ws)].k = "foil"
    THEN SubSeq(ws, 1, Len(ws) - 1)
    ELSE ws

clean_card_name(ws) ==
    StripFoil(StripAnnotation(StripAnnotation(ws, {"set", "pn"}), {"br"}))

(***************************************************************************)
(* parse_plain_deck                                                        *)
(***************************************************************************)
\* counts[name] = qty
SetCount(counts, nm, qty) ==
    IF \E i \in 1..Len(counts) : counts[i][1] = nm
    THEN [i \in 1..Len(counts) |->
            IF counts[i][1] = nm THEN <<nm, qty>> ELSE counts[i]]
    ELSE Append(counts, <<nm, qty>>)

\* counts[name] += qty on the Counter, kept in the order of first entry
AddCount(counts, nm, qty) ==
    IF \E i \in 1..Len(counts) : counts[i][1] = nm
    THEN [i \in 1..Len(counts) |->
            IF counts[i][1] = nm
            THEN <<nm, counts[i][2] + qty>>
            ELSE counts[i]]
    ELSE Append(counts, <<nm, qty>>)

\* if name not in commanders: append, whatever the section
AddCommanderAnywhere(commanders, section, nm) ==
    IF ~(\E i \in 1..Len(commanders) : commanders[i] = nm)
    THEN Append(commanders, nm)
    ELSE commanders

\* a section of commanders that names no commander
NoCommander(commanders, section, nm) == commanders

\* if section == "commander" and name not in commanders: append
AddCommander(commanders, section, nm) ==
    IF section = "commander" /\ ~(\E i \in 1..Len(commanders) : commanders[i] = nm)
    THEN Append(commanders, nm)
    ELSE commanders

\* [v.strip() for v in val.split(",") if v.strip()] on the words after the
\* colon; cur is the piece being read
RECURSIVE SplitCommas(_, _)
SplitCommas(ws, cur) ==
    IF ws = <<>>
    THEN IF cur = <<>> THEN <<>> ELSE <<cur>>
    ELSE IF Head(ws).comma
         THEN LET w == Head(ws)
                  piece == IF w.core # "" THEN Append(cur, w.core) ELSE cur
              IN (IF piece = <<>> THEN <<>> ELSE <<piece>>)
                   \o SplitCommas(Tail(ws), <<>>)
         ELSE SplitCommas(Tail(ws), Append(cur, Head(ws).s))

Deck(nm, commanders, cards) ==
    [name |-> nm, commanders |-> commanders, cards |-> cards]
StartDeck == Deck(<<"Untitled">>, <<>>, <<>>)

\* The state of the loop of parse_plain_deck: the deck so far and section.
ParseState(deck, section) == [deck |-> deck, section |-> section]

\* A card line: its quantity and name, by the prefix pattern
\* ^(\d+)x?\s+(.+)$, else the suffix pattern ^(.+?)\s+x(\d+)$, else the
\* whole line with quantity 1.
CardOf(line) ==
    LET n == Len(line)
    IN IF n >= 2 /\ line[1].k \in {"num", "nx"}
       THEN [qty |-> line[1].n, name |-> Shown(clean_card_name(Tail(line)))]
       ELSE IF n >= 2 /\ line[n].k = "xn"
            THEN [qty |-> line[n].n,
                  name |-> Shown(clean_card_name(SubSeq(line, 1, n - 1)))]
            ELSE [qty |-> 1, name |-> Shown(clean_card_name(line))]

\* a loop that drops nothing
NeverIgnoring(section) == FALSE

\* if section == "ignore": continue
Ignoring(section) == section = "ignore"

\* one turn of the loop `for line in lines`
ParseLine(st, line) ==
    LET low == Low(line)
        d == st.deck
    IN CASE low \in {<<"commander">>, <<"commanders">>} ->
              ParseState(d, "commander")
         [] low \in {<<"mainboard">>, <<"main", "deck">>, <<"maindeck">>,
                     <<"main">>} ->
              ParseState(d, "main")
         [] low \in {<<"sideboard">>, <<"maybeboard">>, <<"maybe", "board">>,
                     <<"may", "be", "board">>} ->
              ParseState(d, "ignore")
         [] line[1].k = "meta" /\ line[1].s \in {"name:", "deck:"} ->
              ParseState(Deck(Shown(Tail(line)), d.commanders, d.cards),
                         st.section)
         [] line[1].k = "meta" /\ line[1].s \in {"commander:", "commanders:"} ->
              ParseState(Deck(d.name, SplitCommas(Tail(line), <<>>), d.cards),
                         "main")
         [] Len(line) >= 2 /\ line[1].alpha /\ line[Len(line)].k = "pn" -> st
         [] line[1].k = "cmt" -> st
         [] Ignoring(st.section) -> st
         [] OTHER ->
              LET c == CardOf(line)
              IN ParseState(Deck(d.name,
                                 AddCommander(d.commanders, st.section, c.name),
                                 AddCount(d.cards, c.name, c.qty)),
                            st.section)

RECURSIVE ParseLines(_, _)
ParseLines(st, lines) ==
    IF lines = <<>> THEN st
    ELSE ParseLines(ParseLine(st, Head(lines)), Tail(lines))

\* lines = [l.strip() for l in text.splitlines() if l.strip()]
NonEmptyLines(text) == SelectSeq(text, LAMBDA l : l # <<>>)

parse_plain_deck(text) ==
    ParseLines(ParseState(StartDeck, "main"), NonEmptyLines(text)).deck

(***************************************************************************)
(* _extract_first_url                                                      *)
(***************************************************************************)
\* text.strip(): the empty lines at both ends go
RECURSIVE StripLines(_)
StripLines(text) ==
    IF text = <<>> THEN text
    ELSE IF Head(text) = <<>> THEN StripLines(Tail(text))
    ELSE IF text[Len(text)] = <<>>
         THEN StripLines(SubSeq(text, 1, Len(text) - 1))
         ELSE text

\* The words of a line with the offset of their first character.
RECURSIVE PlaceLine(_, _)
PlaceLine(line, from) ==
    IF line = <<>> THEN <<>>
    ELSE <<[w |-> Head(line), pos |-> from]>>
           \o PlaceLine(Tail(line), from + Head(line).len + 1)

RECURSIVE LineLen(_)
LineLen(line) ==
    IF line = <<>> THEN 0
    ELSE Head(line).len + (IF Len(line) > 1 THEN 1 ELSE 0) + LineLen(Tail(line))

\* The words of a text, in order, with their offsets in the text.
RECURSIVE Place(_, _)
Place(text, from) ==
    IF text = <<>> THEN <<>>
    ELSE PlaceLine(Head(text), from)
           \o Place(Tail(text), from + LineLen(Head(text)) + 1)

Least(S) == CHOOSE i \in S : \A j \in S : i <= j

\* What _extract_first_url returns: a word of the text from its character
\* cut on, or None.
Piece(w, cut) == [w |-> w, cut |-> cut]
None == Piece(Word("none", "", 0, 0, FALSE), 0)

Needle(host) == host \o ".com/decks/"

_extract_first_url(text, needle) ==
    LET ps == Place(text, 0)
        urls == {i \in 1..Len(ps) : ps[i].w.k = "url"}
        holds == {i \in 1..Len(ps) : Needle(ps[i].w.host) = needle}
    IN IF urls # {} /\ Least(urls) \in holds
       THEN Piece(ps[Least(urls)].w, 0)
       ELSE IF holds # {}
            THEN LET start == ps[Least(holds)].pos + ps[Least(holds)].w.at
                     from == IF start >= 8 THEN start - 8 ELSE 0
                     j == Least({i \in 1..Len(ps) : ps[i].pos + ps[i].w.len > from})
                 IN Piece(ps[j].w, IF from > ps[j].pos THEN from - ps[j].pos ELSE 0)
            ELSE None

\* urlparse(url).path.strip("/").split("/")[-1]: the last segment of the
\* path, which for a word that holds a deck link is its deck id and for the
\* piece of another word is that piece.
deck_id(url) ==
    IF url.w.id # "" THEN [s |-> url.w.id, cut |-> 0]
    ELSE [s |-> url.w.s, cut |-> url.cut]

(***************************************************************************)
(* The hosted-deck adapters read the JSON that get_json returned.  x.get   *)
(* is defined on a dict only and raises AttributeError on another value; a *)
(* for loop over a value that is not iterable, a key that is not hashable  *)
(* and int + a value that is not a number raise TypeError.                 *)
(***************************************************************************)
IsDict(j) == j.t = "dict"
HasKey(d, k) == \E i \in 1..Len(d.v) : d.v[i][1] = k
\* d.get(k, default)
DictGetOr(d, k, default) == IF HasKey(d, k) THEN DictGet(d, k) ELSE default
\* a or b
Or(a, b) == IF Truthy(a) THEN a ELSE b

\* `for x in j`: the elements of a list, the keys of a dict, the characters
\* of a string (here the string itself stands for them, none is a dict)
Iterable(j) == j.t \in {"list", "dict", "str"}
Items(j) ==
    CASE j.t = "list" -> j.v
      [] j.t = "dict" -> [i \in 1..Len(j.v) |-> JStr(j.v[i][1])]
      [] j.t = "str"  -> IF j.v = "" THEN <<>> ELSE <<j>>
      [] OTHER        -> <<>>

_iter_cards_from_container(container) ==
    CASE container.t = "dict" ->
           [i \in 1..Len(container.v) |-> container.v[i][2]]
      [] container.t = "list" -> container.v
      [] OTHER -> <<>>

\* The cards read so far, or that an exception was raised.
Cards(raised, cards) == [raised |-> raised, cards |-> cards]
Raised == Cards(TRUE, <<>>)

\* qty = entry.get(qtyKey, 1)
\* nm = (entry.get("card") or {}).get("name") or entry.get(nameKey)
\* if nm: cards[nm] = cards.get(nm, 0) + qty
AddEntry(acc, entry, qtyKey, nameKey) ==
    IF acc.raised \/ ~IsDict(entry) THEN Raised
    ELSE LET qty == DictGetOr(entry, qtyKey, JInt(1))
             card == Or(DictGet(entry, "card"), JDict(<<>>))
         IN IF ~IsDict(card) THEN Raised
            ELSE LET nm == Or(DictGet(card, "name"), DictGet(entry, nameKey))
                 IN IF ~Truthy(nm) THEN acc
                    ELSE IF nm.t \in {"list", "dict"} \/ qty.t # "int"
                         THEN Raised
                         ELSE Cards(FALSE, AddCount(acc.cards, nm, qty.v))

RECURSIVE AddEntries(_, _, _, _)
AddEntries(acc, entries, qtyKey, nameKey) ==
    IF entries = <<>> \/ acc.raised THEN acc
    ELSE AddEntries(AddEntry(acc, Head(entries), qtyKey, nameKey),
                    Tail(entries), qtyKey, nameKey)

\* `for entry in j`, each entry added
AddEach(acc, j, qtyKey, nameKey) ==
    IF ~Iterable(j) THEN Raised
    ELSE AddEntries(acc, Items(j), qtyKey, nameKey)

\* [c.get(key) for c in j if c.get(key)], or that it raised
NamesOf(j, key) ==
    IF ~Iterable(j) \/ \E i \in 1..Len(Items(j)) : ~IsDict(Items(j)[i])
    THEN Raised
    ELSE LET named == SelectSeq(Items(j), LAMBDA c : Truthy(DictGet(c, key)))
         IN Cards(FALSE, [i \in 1..Len(named) |-> DictGet(named[i], key)])

\* What reading one candidate's response comes to: the loop goes on to the
\* next candidate ("skip"), an exception leaves the adapter ("raise"), or the
\* adapter returns a deck ("deck").
Skip == [kind |-> "skip", deck |-> Deck(<<>>, <<>>, <<>>)]
Raise == [kind |-> "raise", deck |-> Deck(<<>>, <<>>, <<>>)]
Found(deck) == [kind |-> "deck", deck |-> deck]

\* f"Moxfield_{deck_id}", f"Archidekt_{deck_id}"
DefaultName(prefix, id) == [t |-> "made", v |-> <<prefix, id>>]

(***************************************************************************)
(* try_fetch_moxfield: the body of its loop on one candidate's response    *)
(***************************************************************************)
\* if data.get("commanders"): [c.get("name") for c in ... if c.get("name")]
MoxfieldCommanders(body) ==
    IF Truthy(DictGet(body, "commanders"))
    THEN NamesOf(DictGet(body, "commanders"), "name")
    ELSE Cards(FALSE, <<>>)

\* if data.get("boards"): main = boards.get("mainboard") or boards.get("main");
\* if main and main.get("cards"): the entries of the container
MoxfieldBoards(body) ==
    LET boards == DictGet(body, "boards")
    IN IF ~Truthy(boards) THEN Cards(FALSE, <<>>)
       ELSE IF ~IsDict(boards) THEN Raised
       ELSE LET main == Or(DictGet(boards, "mainboard"), DictGet(boards, "main"))
            IN IF ~Truthy(main) THEN Cards(FALSE, <<>>)
               ELSE IF ~IsDict(main) THEN Raised
               ELSE IF ~Truthy(DictGet(main, "cards")) THEN Cards(FALSE, <<>>)
               ELSE AddEntries(Cards(FALSE, <<>>),
                               _iter_cards_from_container(DictGet(main, "cards")),
                               "count", "name")

\* for sec in data["sections"]: for entry in sec.get("cards", [])
RECURSIVE AddSections(_, _)
AddSections(acc, secs) ==
    IF secs = <<>> \/ acc.raised THEN acc
    ELSE IF ~IsDict(Head(secs)) THEN Raised
    ELSE AddSections(AddEach(acc, DictGetOr(Head(secs), "cards", JList(<<>>)),
                             "count", "name"),
                     Tail(secs))

\* if not cards and data.get("sections")
MoxfieldSections(acc, body) ==
    IF acc.raised \/ acc.cards # <<>> \/ ~Truthy(DictGet(body, "sections"))
    THEN acc
    ELSE IF ~Iterable(DictGet(body, "sections")) THEN Raised
    ELSE AddSections(acc, Items(DictGet(body, "sections")))

\* if not cards and data.get("cards")
MoxfieldFlat(acc, body) ==
    IF acc.raised \/ acc.cards # <<>> \/ ~Truthy(DictGet(body, "cards"))
    THEN acc
    ELSE AddEach(acc, DictGet(body, "cards"), "count", "name")

MoxfieldRead(body, id) ==
    IF ~Truthy(body) THEN Skip
    ELSE IF ~IsDict(body) THEN Raise
    ELSE IF Truthy(DictGet(body, "error")) THEN Skip
    ELSE LET nm == Or(DictGet(body, "name"),
                      Or(DictGet(body, "deckName"), DefaultName("Moxfield", id)))
             commanders == MoxfieldCommanders(body)
             cards == IF commanders.raised THEN Raised
                      ELSE MoxfieldFlat(
                             MoxfieldSections(MoxfieldBoards(body), body), body)
         IN IF cards.raised THEN Raise
            ELSE IF cards.cards # <<>>
                 THEN Found(Deck(nm, commanders.cards, cards.cards))
                 ELSE Skip

(***************************************************************************)
(* try_fetch_archidekt: the body of its loop on one candidate's response   *)
(***************************************************************************)
\* for slot in data.get(key, []) or []
ArchidektSlots(acc, body, key) ==
    LET slots == Or(DictGetOr(body, key, JList(<<>>)), JList(<<>>))
    IN IF acc.raised THEN acc
       ELSE AddEach(acc, slots, "quantity", "cardName")

\* meta = data.get("metadata") or {};
\* for ed in meta.get("commanderCards", []) or []: if ed.get("cardName")
ArchidektCommanders(body) ==
    LET meta == Or(DictGet(body, "metadata"), JDict(<<>>))
    IN IF ~IsDict(meta) THEN Raised
       ELSE NamesOf(Or(DictGetOr(meta, "commanderCards", JList(<<>>)),
                       JList(<<>>)),
                    "cardName")

ArchidektRead(body, id) ==
    IF ~Truthy(body) THEN Skip
    ELSE IF ~IsDict(body) THEN Raise
    ELSE IF Truthy(DictGet(body, "error")) THEN Skip
    ELSE LET nm == Or(DictGet(body, "name"), DefaultName("Archidekt", id))
             first == ArchidektSlots(Cards(FALSE, <<>>), body, "cards")
             cards == IF first.raised \/ first.cards # <<>> THEN first
                      ELSE ArchidektSlots(first, body, "slots")
             commanders == IF cards.raised THEN Raised
                           ELSE ArchidektCommanders(body)
         IN IF commanders.raised THEN Raise
            ELSE IF cards.cards # <<>>
                 THEN Found(Deck(nm, commanders.cards, cards.cards))
                 ELSE Skip

\* The request URLs: the card lookup of a name and the endpoints of the
\* deck providers for a deck id.
ScryfallUrl(n) == [api |-> "scryfall", arg |-> n]
Endpoint(api, id) == [api |-> api, arg |-> id]

\* every adapter with one candidate
OneCandidate(provider, id) ==
    IF provider = "moxfield"
    THEN <<Endpoint("api.moxfield.com/v2/decks", id)>>
    ELSE <<Endpoint("archidekt.com/api/decks", id)>>

\* candidates = [...]
Candidates(provider, id) ==
    IF provider = "moxfield"
    THEN <<Endpoint("api.moxfield.com/v2/decks", id),
           Endpoint("api.moxfield.com/decks", id)>>
    ELSE <<Endpoint("archidekt.com/api/decks", id)>>

\* the adapter's reading of a response
Read(provider, body, id) ==
    IF provider = "moxfield" THEN MoxfieldRead(body, id)
    ELSE ArchidektRead(body, id)

\* Bodies a deck provider may answer with.
CardEntry == JDict(<< <<"card", JDict(<< <<"name", JStr("Sol Ring")>> >>)>>,
                      <<"quantity", JInt(2)>> >>)
BoardEntry == JDict(<< <<"count", JInt(3)>>,
                       <<"card", JDict(<< <<"name", JStr("Sol Ring")>> >>)>> >>)
ErrorBody == JDict(<< <<"error", JStr("not found")>> >>)
NoCardsBody == JDict(<< <<"name", JStr("D")>> >>)
FlatBody == JDict(<< <<"name", JStr("D")>>, <<"cards", JList(<<CardEntry>>)>> >>)
BoardsBody ==
    JDict(<< <<"name", JStr("D")>>,
             <<"commanders", JList(<< JDict(<< <<"name", JStr("Atraxa")>> >>) >>)>>,
             <<"boards",
               JDict(<< <<"mainboard",
                          JDict(<< <<"cards",
                                     JDict(<< <<"k1", BoardEntry>> >>)>> >>)>> >>)>> >>)
ListBody == JList(<<JInt(1)>>)
NamesBody == JDict(<< <<"cards", JList(<<JStr("Sol Ring")>>)>> >>)
HostedBodies ==
    { JDict(<<>>), ErrorBody, NoCardsBody, FlatBody, BoardsBody, ListBody,
      NamesBody }

\* What a deck provider may answer to a request: a body, a page that is no
\* JSON with status 403, a 503, or no reply.
HostedAnswers ==
    { Response(200, TRUE, b) : b \in HostedBodies }
      \cup { Response(403, FALSE, JNull), Response(503, FALSE, JNull),
             ConnectionError }

\* What requests.get(url) may come to.
Replies(mode, u) ==
    IF u.api = "scryfall" THEN Answers(mode, u.arg) ELSE HostedAnswers

(***************************************************************************)
(* LabelEngine.  A card record has a type line and keywords (sequences of  *)
(* words), an oracle text (a sequence of words, each in or out of          *)
(* parentheses), a mana value (NoValue when it has none), the colours of   *)
(* mana it produces and its legality as a commander.  A pattern is a       *)
(* phrase, and matches a text that holds its words in a row.  Confidences  *)
(* are in hundredths.                                                      *)
(***************************************************************************)
NoValue == -1
CardJson(type_line, oracle_text, keywords, cmc, produced_mana, commander) ==
    [type_line |-> type_line, oracle_text |-> oracle_text, card_faces |-> <<>>,
     keywords |-> keywords, cmc |-> cmc, produced_mana |-> produced_mana,
     commander |-> commander]
\* A card of several faces: the oracle text is on the faces.
Faced(type_line, card_faces) ==
    [CardJson(type_line, <<>>, <<>>, NoValue, <<>>, "legal")
       EXCEPT !.card_faces = card_faces]
\* A record without attributes: an error record of the card source.
ErrorCard == CardJson(<<>>, <<>>, <<>>, NoValue, <<>>, "")

\* A word of an oracle text.
Said(str) == [s |-> str, paren |-> FALSE]
Aside(str) == [s |-> str, paren |-> TRUE]

\* normalize_oracle_text: the text in parentheses goes, the rest is
\* lower-cased
RECURSIVE JoinFaces(_)
JoinFaces(parts) ==
    IF parts = <<>> THEN <<>>
    ELSE IF Len(parts) = 1 THEN parts[1]
    ELSE parts[1] \o <<Said("//")>> \o JoinFaces(Tail(parts))

normalize_oracle_text(card_json) ==
    LET txt == IF card_json.oracle_text # <<>> THEN card_json.oracle_text
               ELSE JoinFaces(card_json.card_faces)
        kept == SelectSeq(txt, LAMBDA w : ~w.paren)
    IN [i \in 1..Len(kept) |-> LowerS(kept[i].s)]

\* p.search(text) for a phrase p
Matches(pat, txt) ==
    \E i \in 0..Len(txt) - Len(pat) :
        \A k \in 1..Len(pat) : txt[i + k] = pat[k]

\* any(p.search(text) for p in pats)
AnyMatches(pats, txt) == \E i \in 1..Len(pats) : Matches(pats[i], txt)

\* "word" in text
Holds(txt, word) == \E i \in 1..Len(txt) : txt[i] = word

\* The configuration: curated lists, rules and negative lists, each a
\* sequence of <<name, list>> in the order of the file.
Config(curated, rules, negative) ==
    [curated_lists |-> curated, regex_rules |-> rules,
     regex_negative |-> negative]

\* self.compiled_negative.get(lab, [])
NegativeOf(config, lab) ==
    LET hits == {i \in 1..Len(config.regex_negative) :
                   config.regex_negative[i][1] = lab}
    IN IF hits = {} THEN <<>>
       ELSE config.regex_negative[CHOOSE i \in hits : TRUE][2]

\* an entry of labels, and the arguments of a call of _add_label
Label(label, confidence, evidence) ==
    [label |-> label, confidence |-> confidence, evidence |-> evidence]

\* labels[label] = {...}, whatever labels holds
AddLabelAlways(labels, l) ==
    IF \E i \in 1..Len(labels) : labels[i].label = l.label
    THEN [i \in 1..Len(labels) |->
            IF labels[i].label = l.label THEN l ELSE labels[i]]
    ELSE Append(labels, l)

\* LabelEngine._add_label on the dict labels, kept in the order of entry
_add_label(labels, l) ==
    IF \E i \in 1..Len(labels) :
         labels[i].label = l.label /\ labels[i].confidence >= l.confidence
    THEN labels
    ELSE IF \E i \in 1..Len(labels) : labels[i].label = l.label
         THEN [i \in 1..Len(labels) |->
                 IF labels[i].label = l.label THEN l ELSE labels[i]]
         ELSE Append(labels, l)

\* The calls `for list_name, names in self.curated.items()` makes:
\* any(name.lower() == nm.lower() for nm in names)
CuratedCalls(config, nm) ==
    LET lists == SelectSeq(config.curated_lists,
                           LAMBDA c : \E n \in c[2] : lower(nm) = lower(n))
    IN [i \in 1..Len(lists) |->
          Label(lists[i][1], 95, "curated:" \o lists[i][1])]

\* One call, when its condition holds.
When(cond, l) == IF cond THEN <<l>> ELSE <<>>

\* The calls of the type line, the legality and the mana value.
StructuralCalls(card_json) ==
    LET type_line == [i \in 1..Len(card_json.type_line) |->
                        LowerS(card_json.type_line[i])]
    IN When(Holds(type_line, "land") /\ ~Holds(type_line, "creature"),
            Label("IsLand", 85, "type_line:land"))
         \o When(Holds(type_line, "creature"),
                 Label("IsCreature", 85, "type_line:creature"))
         \o When(Holds(type_line, "legendary"),
                 Label("IsLegendary", 90, "type_line:legendary"))
         \o When(card_json.commander = "legal",
                 Label("CommanderLegal", 80, "legalities:commander"))
         \o When(card_json.cmc # NoValue,
                 Label("CMC:" \o ToString(card_json.cmc), 70, "cmc"))

\* for kw in keywords
KeywordCalls(card_json) ==
    [i \in 1..Len(card_json.keywords) |->
       Label("HasKeyword:" \o LowerS(card_json.keywords[i]), 80, "keywords")]

\* bool(produced) or ("add" in oracle and "mana" in oracle)
ProducesMana(card_json) ==
    \/ card_json.produced_mana # <<>>
    \/ /\ Holds(normalize_oracle_text(card_json), "add")
       /\ Holds(normalize_oracle_text(card_json), "mana")

\* The calls of the mana production.
ManaCalls(card_json) ==
    LET type_line == [i \in 1..Len(card_json.type_line) |->
                        LowerS(card_json.type_line[i])]
        produces_mana == ProducesMana(card_json)
    IN When(produces_mana, Label("ProducesMana", 80, "produced_mana/oracle"))
         \o When(Holds(type_line, "artifact") /\ produces_mana,
                 Label("ManaRock", 88, "artifact+produces_mana"))
         \o When(Holds(type_line, "artifact") /\ ~produces_mana,
                 Label("Artifact", 70, "type_line:artifact"))
         \o When(Holds(type_line, "creature") /\ produces_mana,
                 Label("ManaDork", 88, "creature+produces_mana"))

\* a rule table without negative lists
NeverVetoed(config, lab, oracle) == FALSE

\* any(n.search(oracle) for n in negs)
Vetoed(config, lab, oracle) == AnyMatches(NegativeOf(config, lab), oracle)

\* for lab, pats in self.compiled.items()
RuleCalls(config, card_json) ==
    LET oracle == normalize_oracle_text(card_json)
        fired == SelectSeq(config.regex_rules,
                           LAMBDA r : /\ AnyMatches(r[2], oracle)
                                      /\ ~Vetoed(config, r[1], oracle))
    IN [i \in 1..Len(fired) |-> Label(fired[i][1], 60, "regex:" \o fired[i][1])]

\* The calls of _add_label that label_card makes, in order.
Calls(config, card_json, nm) ==
    CuratedCalls(config, nm) \o StructuralCalls(card_json)
      \o KeywordCalls(card_json) \o ManaCalls(card_json)
      \o RuleCalls(config, card_json)

RECURSIVE AddLabels(_, _)
AddLabels(labels, calls) ==
    IF calls = <<>> THEN labels
    ELSE AddLabels(_add_label(labels, Head(calls)), Tail(calls))

\* label_card: list(labels.values())
label_card(config, card_json, nm) ==
    AddLabels(<<>>, Calls(config, card_json, nm))

(***************************************************************************)
(* aggregate_deck and derive_archetypes.  A dict is a sequence of          *)
(* <<key, value>> in the order of entry.  A rounded percentage is an       *)
(* integer: hundredths of a percent in the aggregate, tenths in the        *)
(* derived profile.                                                        *)
(***************************************************************************)
\* d.get(key, default)
GetOr(pairs, key, default) ==
    IF \E i \in 1..Len(pairs) : pairs[i][1] = key
    THEN pairs[CHOOSE i \in 1..Len(pairs) : pairs[i][1] = key][2]
    ELSE default

\* for l in labs: counts[l["label"]] += qty
RECURSIVE CountLabels(_, _, _)
CountLabels(counts, labs, qty) ==
    IF labs = <<>> THEN counts
    ELSE CountLabels(AddCount(counts, Head(labs).label, qty), Tail(labs), qty)

\* a card counted once, however many copies the deck holds
CountCardOnce(counts, labs, qty) == CountLabels(counts, labs, 1)

\* one turn of `for name, labs in labels_by_card.items()`
CountCard(counts, labs, qty) == CountLabels(counts, labs, qty)

\* sum(d.values())
RECURSIVE SumValues(_)
SumValues(pairs) ==
    IF pairs = <<>> THEN 0 ELSE Head(pairs)[2] + SumValues(Tail(pairs))

\* x or 1
OrOne(x) == IF x = 0 THEN 1 ELSE x

\* round(n / d): the nearest integer, a half going to the even one
Round(n, d) ==
    LET sign == IF (n < 0) # (d < 0) THEN -1 ELSE 1
        a == IF n < 0 THEN -n ELSE n
        b == IF d < 0 THEN -d ELSE d
        q == a \div b
        r == a % b
    IN sign * (IF 2 * r > b \/ (2 * r = b /\ q % 2 = 1) THEN q + 1 ELSE q)

\* what aggregate_deck returns for the counts of its loop
Aggregate(counts, quants) ==
    LET total_cards == OrOne(SumValues(quants))
    IN [counts |-> counts,
        percentages |-> [i \in 1..Len(counts) |->
                           <<counts[i][1],
                             Round(counts[i][2] * 10000, total_cards)>>],
        total |-> total_cards]

\* max(0, total - (ramp + ... + combo))
Others(total, categories) ==
    IF total - categories > 0 THEN total - categories ELSE 0

\* The labels each category of derive_archetypes sums.
Category ==
    [Ramp |-> {"ManaRock", "ManaDork", "RampLand", "fast_mana", "Ritual"},
     Tutors |-> {"TutorAny", "TutorCreature", "Tutor", "TutorRestricted",
                 "unconditional_tutors"},
     Interaction |-> {"Counterspell", "SpotRemoval", "BoardWipe",
                      "free_interaction"},
     Draw |-> {"Draw", "Loot"},
     Stax |-> {"staple_stax", "Stax", "Hatebear"},
     Recursion |-> {"Recursion"},
     Combo |-> {"ComboPiece", "ComboEnabler", "combo_enablers"}]

\* s(k) summed over the labels of a category
RECURSIVE SumOf(_, _)
SumOf(counts, labs) ==
    IF labs = {} THEN 0
    ELSE LET k == CHOOSE l \in labs : TRUE
         IN GetOr(counts, k, 0) + SumOf(counts, labs \ {k})

derive_archetypes(aggregate_counts) ==
    LET raw == [c \in DOMAIN Category |->
                  SumOf(aggregate_counts.counts, Category[c])]
        total == OrOne(aggregate_counts.total)
        pct(x) == Round(x * 1000, total)
        others == Others(total, raw.Ramp + raw.Tutors + raw.Interaction
                                  + raw.Draw + raw.Stax + raw.Recursion
                                  + raw.Combo)
    IN [c \in DOMAIN Category \cup {"Other"} |->
          IF c = "Other" THEN pct(others) ELSE pct(raw[c])]

(***************************************************************************)
(* matchup_analysis.  A normalized score is the fraction <<raw score,      *)
(* divisor>>.                                                              *)
(***************************************************************************)
\* The raw scores of the four archetypes, in the order of the dict.
Archetypes == <<"Aggro", "Control", "Combo", "Engine">>

RawScores(counts) ==
    [Aggro |-> GetOr(counts, "IsCreature", 0)
                 - (GetOr(counts, "Counterspell", 0)
                      + GetOr(counts, "BoardWipe", 0)),
     Control |-> GetOr(counts, "Counterspell", 0)
                   + GetOr(counts, "BoardWipe", 0)
                   + GetOr(counts, "free_interaction", 0),
     Combo |-> GetOr(counts, "Tutor", 0) + GetOr(counts, "TutorAny", 0)
                 + GetOr(counts, "fast_mana", 0) + GetOr(counts, "ManaRock", 0),
     Engine |-> GetOr(counts, "Draw", 0) + GetOr(counts, "Recursion", 0)]

\* the last score taken for the highest
LastScore(scores) == scores.Engine

\* max(scores.values())
MaxScore(scores) ==
    CHOOSE x \in {scores[k] : k \in DOMAIN scores} :
      \A k \in DOMAIN scores : scores[k] <= x

\* scores left as they are
NoDivisor(maxscore) == 1

\* (maxscore or 1)
Divisor(maxscore) == OrOne(maxscore)

\* a / b < c / d, for divisors other than 0
Less(x, y) ==
    IF (x[2] > 0) = (y[2] > 0) THEN x[1] * y[2] < y[1] * x[2]
    ELSE x[1] * y[2] > y[1] * x[2]

\* sorted(scores.items(), key=lambda x: x[1], reverse=True): the place in
\* Archetypes of the i-th of the sorted list.  The sort is stable, so of two
\* equal scores the earlier of the dict comes first.
Before(scores, a, b) ==
    \/ Less(scores[Archetypes[b]], scores[Archetypes[a]])
    \/ ~Less(scores[Archetypes[a]], scores[Archetypes[b]]) /\ a < b

Sorted(scores) ==
    [i \in 1..Len(Archetypes) |->
       CHOOSE a \in 1..Len(Archetypes) :
         Cardinality({b \in 1..Len(Archetypes) : Before(scores, b, a)}) = i - 1]

matchup_analysis(agg) ==
    LET raw == RawScores(agg.counts)
        maxscore == MaxScore(raw)
        scores == [k \in DOMAIN raw |-> <<raw[k], Divisor(maxscore)>>]
        sorted_scores == Sorted(scores)
        best == Archetypes[sorted_scores[1]]
        worst == Archetypes[sorted_scores[Len(sorted_scores)]]
    IN [scores |-> scores, strong_against |-> <<best>>,
        weak_against |-> <<worst>>, because |-> <<best, worst>>]

(***************************************************************************)
(* Analyzer.analyze and App._analyze_thread.  An event of the channel is   *)
(* the pair of its type and its value; the texts of status and log events  *)
(* are left to their kind.                                                 *)
(***************************************************************************)
Event(typ, val) == [typ |-> typ, val |-> val]

\* status_q.put(...)
Put(q, typ, val) == Append(q, Event(typ, val))

\* what get_json puts before a request: nothing when the cache answers
GetStatus(q, hit) == IF hit THEN q ELSE Put(q, "status", "GET")

\* the log line of analyze for an error object of the card source
ErrorLog(q, card_json) ==
    IF card_json = ErrorCard THEN Put(q, "log", "Scryfall error") ELSE q

\* enumerate(unique_names) left to start at 0
ProgressFromZero(i) == i

\* idx of enumerate(unique_names, start=1) for the i cards taken before
ProgressValue(i) == i + 1

\* an exception that no handler takes: the thread ends without a word
Uncaught(q, e) == q

\* except Exception as e: self.status_q.put(("error", f"Error: {e}"))
Caught(q, e) == Put(q, "error", e)

\* aggregate_deck(labels_by_card, quantities)
RECURSIVE CountAll(_, _, _)
CountAll(counts, by_card, quants) ==
    IF by_card = <<>> THEN counts
    ELSE CountAll(CountCard(counts, Head(by_card)[2],
                            GetOr(quants, Head(by_card)[1], 1)),
                  Tail(by_card), quants)

aggregate_deck(by_card, quants) ==
    Aggregate(CountAll(<<>>, by_card, quants), quants)

VARIABLES
    elapsed,     \* time.time() - HttpClient._last, counted up to MinInterval
    http_lock,   \* the holder of HttpClient._lock
    cache_lock,  \* the holder of ScryfallCache.lock
    data,        \* ScryfallCache.data["cards"]
    disk,        \* the cache file
    remote,      \* how the remote source behaves in this run
    deck,        \* the card names of the decks analysed in this run
    pc,          \* where each thread is
    name,        \* fetch_card's argument
    attempt,     \* get_json's loop variable (0 before the loop)
    backoff,     \* get_json's backoff
    asleep,      \* what is left of the time.sleep of _wait_rate_limit
    resp,        \* the reply of the current attempt
    ret,         \* get_json's result, then fetch_card's data
    callers,     \* the threads that analyse decks in this run
    returned,    \* per cache key, what the last fetch_card to return returned
    seen,        \* returned[key] as it was when the thread's call began
    text,        \* the text of the deck box
    adapter,     \* the provider adapter the thread is in, or "none"
    link,        \* the adapter's argument url
    cand,        \* the index of the adapter's candidate c
    resolved,    \* what detect_and_resolve_deck returned
    via,         \* where that deck came from
    outcome,     \* per provider, how the call of its adapter ended
    tried,       \* the endpoints requested, in order, and how the adapter
                 \* took what get_json returned for each
    parse,       \* parse_plain_deck's deck_name, commanders, counts, section
    done,        \* the lines its loop has taken, with the section of each
    subject,     \* the engine's config and label_card's card_json and name
    tags,        \* label_card's labels
    made,        \* the calls of _add_label label_card has made
    results,     \* what the calls of label_card returned, in order
    quantities,  \* the deck's cards, as Analyzer.analyze passes them on
    labels_by_card, \* the labels of each of them
    tally,       \* aggregate_deck's counts
    visited,     \* the cards its loop has taken
    aggregate,   \* what aggregate_deck returned
    derived,     \* what derive_archetypes returned
    matchup,     \* what matchup_analysis returned
    stage,       \* where the analysis is
    status_q,    \* the events put on App.status_q, in order
    analysed,    \* analyze's deck
    fetched,     \* the calls of fetch_card of the run: name and record
    output,      \* the report file of the run
    raised       \* the exception on its way to the handler of the thread

resolver == << text, adapter, link, cand, resolved, via, outcome, tried >>

fetcher == << elapsed, http_lock, cache_lock, data, disk, remote, deck, pc,
              name, attempt, backoff, asleep, resp, ret, callers, returned,
              seen >>

parser == << parse, done >>

labeler == << subject, tags, made, results >>

aggregator == << quantities, labels_by_card, tally, visited, aggregate,
                 derived, matchup, stage >>

runner == << status_q, analysed, fetched, output, raised >>

analysis == << parser, labeler, aggregator, runner >>

vars == << fetcher, resolver, analysis >>

NoThread == "none"

\* The runs of the model: who analyses, which names, against which remote.
Scenario(c, d, r) == [callers |-> c, deck |-> d, remote |-> r]
Scenarios ==
    { Scenario({"t1"}, Names, "flaky"),
      Scenario(Threads, Names, "up"),
      Scenario(Threads, Names, "down"),
      Scenario(Threads, {n \in Names : _key(n) = <<"a">>}, "unsteady") }

\* The cache files a run may start from.
StartFiles ==
    { File("missing", NoCards),
      File("corrupt", NoCards),
      File("valid", [k \in {<<"b">>} |-> NotFound]) }

\* the adapters in the other order
ProvidersSwapped == <<"archidekt", "moxfield">>

\* detect_and_resolve_deck tries the adapters in this order
Providers == <<"moxfield", "archidekt">>
NoOutcome == [p \in {"moxfield", "archidekt"} |-> "untried"]

\* No thread has begun anything.
AllIdle ==
    /\ elapsed = MinInterval
    /\ http_lock = NoThread
    /\ cache_lock = NoThread
    /\ pc = [t \in Threads |-> "idle"]
    /\ adapter = [t \in Threads |-> "none"]
    /\ link = [t \in Threads |-> None]
    /\ cand = [t \in Threads |-> 0]
    /\ resolved = [t \in Threads |-> StartDeck]
    /\ via = [t \in Threads |-> "none"]
    /\ outcome = [t \in Threads |-> NoOutcome]
    /\ tried = [t \in Threads |-> <<>>]

\* parse_plain_deck has not been called.
ParserIdle ==
    /\ parse = ParseState(StartDeck, "main")
    /\ done = <<>>

\* No LabelEngine has been built.
NoSubject == [config |-> Config(<<>>, <<>>, <<>>), card_json |-> ErrorCard,
              name |-> <<>>]
LabelerIdle ==
    /\ subject = NoSubject
    /\ tags = <<>>
    /\ made = 0
    /\ results = <<>>

\* Nothing has been aggregated.
NoAggregate == [counts |-> <<>>, percentages |-> <<>>, total |-> 0]
NoDerived == [c \in DOMAIN Category \cup {"Other"} |-> 0]
NoMatchup == matchup_analysis(NoAggregate)
AggregatorIdle ==
    /\ quantities = <<>>
    /\ labels_by_card = <<>>
    /\ tally = <<>>
    /\ visited = 0
    /\ aggregate = NoAggregate
    /\ derived = NoDerived
    /\ matchup = NoMatchup
    /\ stage = "idle"

\* No analysis has been started.
RunnerIdle ==
    /\ status_q = <<>>
    /\ analysed = StartDeck
    /\ fetched = <<>>
    /\ output = "none"
    /\ raised = "none"

Init ==
    /\ AllIdle
    /\ ParserIdle
    /\ LabelerIdle
    /\ AggregatorIdle
    /\ RunnerIdle
    /\ text = <<>>
    /\ disk \in StartFiles
    /\ data = _load(disk)
    /\ \E s \in Scenarios :
         callers = s.callers /\ deck = s.deck /\ remote = s.remote
    /\ name = [t \in Threads |-> <<>>]
    /\ attempt = [t \in Threads |-> 0]
    /\ backoff = [t \in Threads |-> 1]
    /\ asleep = [t \in Threads |-> 0]
    /\ resp = [t \in Threads |-> NoResponse]
    /\ ret = [t \in Threads |-> JNull]
    /\ returned = [k \in Keys |-> JNull]
    /\ seen = [t \in Threads |-> JNull]

\* time passes: the time since the last stamp grows, sleeps run down
Tick ==
    /\ elapsed < MinInterval \/ \E t \in Threads : asleep[t] > 0
    /\ elapsed' = IF elapsed < MinInterval THEN elapsed + 1 ELSE elapsed
    /\ asleep' = [t \in Threads |-> IF asleep[t] > 0 THEN asleep[t] - 1 ELSE 0]
    /\ UNCHANGED << http_lock, cache_lock, data, disk, remote, deck, callers, pc,
                    name, attempt, backoff, resp, ret, returned, seen,
                    resolver, analysis >>

(***************************************************************************)
(* ScryfallClient.fetch_card                                               *)
(***************************************************************************)
\* an analysis thread calls fetch_card(n)
Call(t, n) ==
    /\ t \in callers
    /\ pc[t] = "idle"
    /\ name' = [name EXCEPT ![t] = n]
    /\ seen' = [seen EXCEPT ![t] = returned[_key(n)]]
    /\ pc' = [pc EXCEPT ![t] = "get"]
    /\ UNCHANGED << elapsed, http_lock, cache_lock, data, disk, remote, deck,
                    callers, attempt, backoff, asleep, resp, ret, returned,
                    resolver, analysis >>

\* ScryfallCache.get: with self.lock
CacheGetLock(t) ==
    /\ pc[t] = "get"
    /\ cache_lock = NoThread
    /\ cache_lock' = t
    /\ pc' = [pc EXCEPT ![t] = "get_locked"]
    /\ UNCHANGED << elapsed, http_lock, data, disk, remote, deck, callers, name,
                    attempt, backoff, asleep, resp, ret, returned, seen,
                    resolver, analysis >>

\* `if cached:`
IsHit(cached) == Truthy(cached)

\* ScryfallCache.get returns and releases the lock; fetch_card returns the
\* cached record or begins get_json (backoff = 1.0, attempt = 1)
CacheGetReturn(t) ==
    /\ pc[t] = "get_locked"
    /\ cache_lock' = NoThread
    /\ LET cached == CacheLookup(data, name[t])
       IN IF IsHit(cached)
          THEN /\ ret' = [ret EXCEPT ![t] = cached]
               /\ pc' = [pc EXCEPT ![t] = "done"]
               /\ UNCHANGED << attempt, backoff >>
          ELSE /\ attempt' = [attempt EXCEPT ![t] = 1]
               /\ backoff' = [backoff EXCEPT ![t] = 1]
               /\ pc' = [pc EXCEPT ![t] = "gate"]
               /\ UNCHANGED ret
    /\ UNCHANGED << elapsed, http_lock, data, disk, remote, deck, callers, name,
                    asleep, resp, returned, seen, resolver, analysis >>

(***************************************************************************)
(* HttpClient._wait_rate_limit                                             *)
(***************************************************************************)
\* a sleep one tick short
SleepShort(delta) == MinInterval - delta - 1

\* time.sleep(self.min_interval - delta)
SleepFor(delta) == MinInterval - delta

\* with self._lock: now = time.time(); delta = now - self._last;
\* if delta < self.min_interval: time.sleep(...)
WaitEnter(t) ==
    /\ pc[t] = "gate"
    /\ http_lock = NoThread
    /\ http_lock' = t
    /\ LET delta == elapsed
       IN IF delta < MinInterval
          THEN /\ asleep' = [asleep EXCEPT ![t] = SleepFor(delta)]
               /\ pc' = [pc EXCEPT ![t] = "sleep"]
          ELSE /\ pc' = [pc EXCEPT ![t] = "stamp"]
               /\ UNCHANGED asleep
    /\ UNCHANGED << elapsed, cache_lock, data, disk, remote, deck, callers, name,
                    attempt, backoff, resp, ret, returned, seen, resolver,
                    analysis >>

\* time.sleep returns once the time asked for has passed
WaitWake(t) ==
    /\ pc[t] = "sleep"
    /\ asleep[t] <= 0
    /\ asleep' = [asleep EXCEPT ![t] = 0]
    /\ pc' = [pc EXCEPT ![t] = "stamp"]
    /\ UNCHANGED << elapsed, http_lock, cache_lock, data, disk, remote, deck,
                    callers, name, attempt, backoff, resp, ret, returned,
                    seen, resolver, analysis >>

\* a request made inside the `with` block
StillHeld(t) == t

\* The holder of the lock once the `with self._lock` block of thread t ends.
AfterWith(t) == NoThread

\* self._last = time.time(); the lock is released and requests.get is called
WaitStamp(t) ==
    /\ pc[t] = "stamp"
    /\ elapsed' = 0
    /\ http_lock' = AfterWith(t)
    /\ pc' = [pc EXCEPT ![t] = "request"]
    /\ UNCHANGED << cache_lock, data, disk, remote, deck, callers, name, attempt,
                    backoff, asleep, resp, ret, returned, seen, resolver,
                    analysis >>

(***************************************************************************)
(* HttpClient.get_json                                                     *)
(***************************************************************************)
\* get_json's argument url: fetch_card's lookup of its name, or the
\* adapter's candidate
RequestUrl(t) ==
    IF adapter[t] = "none" THEN ScryfallUrl(name[t])
    ELSE Candidates(adapter[t], deck_id(link[t]))[cand[t]]

\* requests.get(url, timeout=REQUESTS_TIMEOUT) returns or raises
Respond(t) ==
    /\ pc[t] = "request"
    /\ \E r \in Replies(remote, RequestUrl(t)) :
         resp' = [resp EXCEPT ![t] = r]
    /\ pc' = [pc EXCEPT ![t] = "handle"]
    /\ UNCHANGED << elapsed, http_lock, cache_lock, data, disk, remote, deck,
                    callers, name, attempt, backoff, asleep, ret, returned,
                    seen, resolver, analysis >>

\* the retried statuses without 429
IsServerError(status) == status \in {500, 502, 503, 504}

\* resp.status_code in (429, 500, 502, 503, 504)
IsTransient(status) == status \in TransientStatuses

\* Whether the attempt ends in the retry path: requests.get raised, the
\* status is transient, or a 200 body does not decode (resp.json() raises
\* requests' JSONDecodeError, a RequestException).
Retried(r) ==
    \/ r.status = 0
    \/ r.status = 200 /\ ~r.decodes
    \/ r.status # 200 /\ IsTransient(r.status)

\* What get_json returns on an attempt that is not retried.
Returned(r) ==
    IF r.decodes THEN r.body ELSE HttpError(r.status)

\* the branches of get_json on the reply
Handle(t) ==
    /\ pc[t] = "handle"
    /\ IF Retried(resp[t])
       THEN /\ pc' = [pc EXCEPT ![t] = "backoff"]
            /\ UNCHANGED ret
       ELSE /\ ret' = [ret EXCEPT ![t] = Returned(resp[t])]
            /\ pc' = [pc EXCEPT ![t] = "got"]
    /\ resp' = [resp EXCEPT ![t] = NoResponse]
    /\ UNCHANGED << elapsed, http_lock, cache_lock, data, disk, remote, deck,
                    callers, name, attempt, backoff, asleep, returned, seen,
                    resolver, analysis >>

\* a loop that runs once too often
MoreAttemptsOffByOne(a) == a <= Retries

\* `for attempt in range(1, retries + 1)`: whether another attempt follows
MoreAttempts(a) == a < Retries

\* time.sleep(backoff + jitter); backoff *= 2; the next attempt, or
\* return {"error": "request_failed"} after the last.  How long the sleep
\* lasts is left open.
Backoff(t) ==
    /\ pc[t] = "backoff"
    /\ backoff' = [backoff EXCEPT ![t] = 2 * @]
    /\ IF MoreAttempts(attempt[t])
       THEN /\ attempt' = [attempt EXCEPT ![t] = @ + 1]
            /\ pc' = [pc EXCEPT ![t] = "gate"]
            /\ UNCHANGED ret
       ELSE /\ ret' = [ret EXCEPT ![t] = Sentinel]
            /\ pc' = [pc EXCEPT ![t] = "got"]
            /\ UNCHANGED attempt
    /\ UNCHANGED << elapsed, http_lock, cache_lock, data, disk, remote, deck,
                    callers, name, asleep, resp, returned, seen, resolver,
                    analysis >>

(***************************************************************************)
(* fetch_card after get_json, and ScryfallCache.set                        *)
(***************************************************************************)
\* get_json's result as it is, without the `or`
AsIs(v) == v

\* self.http.get_json(...) or {"error": "request_failed"}
OrFailed(v) == IF Truthy(v) THEN v ELSE Sentinel

\* data = get_json(...) or {...}; self.cache.set(name, data) is called
Store(t) ==
    /\ pc[t] = "got"
    /\ adapter[t] = "none"
    /\ ret' = [ret EXCEPT ![t] = OrFailed(ret[t])]
    /\ pc' = [pc EXCEPT ![t] = "set"]
    /\ UNCHANGED << elapsed, http_lock, cache_lock, data, disk, remote, deck,
                    callers, name, attempt, backoff, asleep, resp, returned,
                    seen, resolver, analysis >>

\* ScryfallCache.set: with self.lock
SetLock(t) ==
    /\ pc[t] = "set"
    /\ cache_lock = NoThread
    /\ cache_lock' = t
    /\ pc' = [pc EXCEPT ![t] = "set_locked"]
    /\ UNCHANGED << elapsed, http_lock, data, disk, remote, deck, callers, name,
                    attempt, backoff, asleep, resp, ret, returned, seen,
                    resolver, analysis >>

\* What the file may hold after open(path, "w") and json.dump(cards): the
\* cards; what it held, when open fails; a truncated text, when the dump
\* fails.
Written(file, cards) ==
    { File("valid", cards), file, File("corrupt", NoCards) }

\* the entry is set, the file is written (any failure is passed over), the
\* lock is released and set returns
SetWrite(t) ==
    /\ pc[t] = "set_locked"
    /\ data' = CacheUpdate(data, name[t], ret[t])
    /\ disk' \in Written(disk, data')
    /\ cache_lock' = NoThread
    /\ pc' = [pc EXCEPT ![t] = "done"]
    /\ UNCHANGED << elapsed, http_lock, remote, deck, callers, name, attempt,
                    backoff, asleep, resp, ret, returned, seen, resolver,
                    analysis >>

\* fetch_card returns its data to the analysis thread
Return(t) ==
    /\ pc[t] = "done"
    /\ returned' = [returned EXCEPT ![_key(name[t])] = ret[t]]
    /\ name' = [name EXCEPT ![t] = <<>>]
    /\ ret' = [ret EXCEPT ![t] = JNull]
    /\ attempt' = [attempt EXCEPT ![t] = 0]
    /\ seen' = [seen EXCEPT ![t] = JNull]
    /\ pc' = [pc EXCEPT ![t] = "idle"]
    /\ UNCHANGED << elapsed, http_lock, cache_lock, data, disk, remote, deck,
                    callers, backoff, asleep, resp, resolver, analysis >>

(***************************************************************************)
(* detect_and_resolve_deck and the loops of the adapters                   *)
(***************************************************************************)
\* The first provider after the i-th whose link _extract_first_url finds in
\* the text, or 0.
Following(txt, i) ==
    LET later == {j \in i + 1..Len(Providers) :
                    _extract_first_url(txt, Needle(Providers[j])) # None}
    IN IF later = {} THEN 0 ELSE Least(later)

\* An entry of tried: the request of an endpoint is under way, and how what
\* it came to was taken: as an error marker ("error"), as nothing to read
\* ("skip"), as a deck ("deck"), or an exception was raised ("raise").
Asked(u) == [api |-> u.api, got |-> "pending"]
IsErrorMarker(j) == IsDict(j) /\ Truthy(DictGet(j, "error"))
Taken(log, j, kind) ==
    [log EXCEPT ![Len(log)].got =
        IF kind = "skip" /\ IsErrorMarker(j) THEN "error" ELSE kind]

\* The resolver goes on after the i-th provider: it calls the adapter of the
\* next provider with a link, which requests its first candidate, or it
\* returns parse_plain_deck(text).
Proceed(t, i, log) ==
    LET txt == StripLines(text)
        j == Following(txt, i)
    IN IF j = 0
       THEN /\ resolved' = [resolved EXCEPT ![t] = parse_plain_deck(txt)]
            /\ via' = [via EXCEPT ![t] = "freeform"]
            /\ adapter' = [adapter EXCEPT ![t] = "none"]
            /\ pc' = [pc EXCEPT ![t] = "resolved"]
            /\ tried' = [tried EXCEPT ![t] = log]
            /\ UNCHANGED << link, cand, attempt, backoff >>
       ELSE LET url == _extract_first_url(txt, Needle(Providers[j]))
            IN /\ adapter' = [adapter EXCEPT ![t] = Providers[j]]
               /\ link' = [link EXCEPT ![t] = url]
               /\ cand' = [cand EXCEPT ![t] = 1]
               /\ tried' = [tried EXCEPT ![t] =
                     Append(log, Asked(Candidates(Providers[j], deck_id(url))[1]))]
               /\ attempt' = [attempt EXCEPT ![t] = 1]
               /\ backoff' = [backoff EXCEPT ![t] = 1]
               /\ pc' = [pc EXCEPT ![t] = "gate"]
               /\ UNCHANGED << resolved, via >>

\* an analysis thread calls detect_and_resolve_deck(text)
Resolve(t) ==
    /\ t \in callers
    /\ pc[t] = "idle"
    /\ Proceed(t, 0, tried[t])
    /\ UNCHANGED << elapsed, http_lock, cache_lock, data, disk, remote, deck,
                    callers, name, asleep, resp, ret, returned, seen, text,
                    outcome, analysis >>

\* The index of a provider in Providers.
IndexOf(p) == CHOOSE i \in 1..Len(Providers) : Providers[i] = p

\* the adapter reads what get_json returned for its candidate: it returns a
\* deck, which the resolver returns; or an exception leaves the adapter and
\* the resolver; or it requests the next candidate; or, after the last, it
\* returns None and the resolver goes on
Adapter(t) ==
    /\ pc[t] = "got"
    /\ adapter[t] # "none"
    /\ LET p == adapter[t]
           id == deck_id(link[t])
           r == Read(p, ret[t], id)
           log == Taken(tried[t], ret[t], r.kind)
       IN CASE r.kind = "deck" ->
                 /\ resolved' = [resolved EXCEPT ![t] = r.deck]
                 /\ via' = [via EXCEPT ![t] = p]
                 /\ outcome' = [outcome EXCEPT ![t][p] = "deck"]
                 /\ adapter' = [adapter EXCEPT ![t] = "none"]
                 /\ pc' = [pc EXCEPT ![t] = "resolved"]
                 /\ tried' = [tried EXCEPT ![t] = log]
                 /\ UNCHANGED << link, cand, attempt, backoff >>
            [] r.kind = "raise" ->
                 /\ outcome' = [outcome EXCEPT ![t][p] = "raised"]
                 /\ adapter' = [adapter EXCEPT ![t] = "none"]
                 /\ pc' = [pc EXCEPT ![t] = "raised"]
                 /\ tried' = [tried EXCEPT ![t] = log]
                 /\ UNCHANGED << link, cand, attempt, backoff, resolved, via >>
            [] OTHER ->
                 IF cand[t] < Len(Candidates(p, id))
                 THEN /\ cand' = [cand EXCEPT ![t] = @ + 1]
                      /\ tried' = [tried EXCEPT ![t] =
                            Append(log, Asked(Candidates(p, id)[cand[t] + 1]))]
                      /\ attempt' = [attempt EXCEPT ![t] = 1]
                      /\ backoff' = [backoff EXCEPT ![t] = 1]
                      /\ pc' = [pc EXCEPT ![t] = "gate"]
                      /\ UNCHANGED << adapter, link, resolved, via, outcome >>
                 ELSE /\ outcome' = [outcome EXCEPT ![t][p] = "none"]
                      /\ Proceed(t, IndexOf(p), log)
    /\ ret' = [ret EXCEPT ![t] = JNull]
    /\ UNCHANGED << elapsed, http_lock, cache_lock, data, disk, remote, deck,
                    callers, name, asleep, resp, returned, seen, text,
                    analysis >>

Next ==
    \/ Tick
    \/ \E t \in Threads :
        \/ \E n \in deck : Call(t, n)
        \/ CacheGetLock(t)
        \/ CacheGetReturn(t)
        \/ WaitEnter(t)
        \/ WaitWake(t)
        \/ WaitStamp(t)
        \/ Respond(t)
        \/ Handle(t)
        \/ Backoff(t)
        \/ Store(t)
        \/ SetLock(t)
        \/ SetWrite(t)
        \/ Return(t)

Spec == Init /\ [][Next]_vars

(***************************************************************************)
(* The resolver alone: one thread resolves the text of the deck box.       *)
(***************************************************************************)
\* The lines a text of the deck box is made of here.
MoxfieldLink ==
    Link("url", "https://moxfield.com/decks/m1", 29, "moxfield", 8, "m1")
ArchidektLink ==
    Link("url", "https://archidekt.com/decks/a1", 30, "archidekt", 8, "a1")
BareLink == Link("w", "moxfield.com/decks/m1", 21, "moxfield", 0, "m1")
OtherLink == Link("url", "https://example.com/x", 21, "none", 0, "x")
Lines ==
    { <<MoxfieldLink>>, <<ArchidektLink>>, <<Plain("see", 3), BareLink>>,
      <<OtherLink>>, <<Num(1), Plain("Sol", 3), Plain("Ring", 4)>> }

\* The longest text, in lines.
MaxLines == 2

RECURSIVE TextsOf(_)
TextsOf(n) ==
    IF n = 0 THEN {<<>>}
    ELSE TextsOf(n - 1)
           \cup {Append(txt, l) : txt \in TextsOf(n - 1), l \in Lines}

InitResolve ==
    /\ AllIdle
    /\ ParserIdle
    /\ LabelerIdle
    /\ AggregatorIdle
    /\ RunnerIdle
    /\ text \in TextsOf(MaxLines)
    /\ disk = File("missing", NoCards)
    /\ data = _load(disk)
    /\ callers = {"t1"}
    /\ deck = {}
    /\ remote = "flaky"
    /\ name = [t \in Threads |-> <<>>]
    /\ attempt = [t \in Threads |-> 0]
    /\ backoff = [t \in Threads |-> 1]
    /\ asleep = [t \in Threads |-> 0]
    /\ resp = [t \in Threads |-> NoResponse]
    /\ ret = [t \in Threads |-> JNull]
    /\ returned = [k \in Keys |-> JNull]
    /\ seen = [t \in Threads |-> JNull]

NextResolve ==
    \/ Tick
    \/ \E t \in Threads :
        \/ Resolve(t)
        \/ WaitEnter(t)
        \/ WaitWake(t)
        \/ WaitStamp(t)
        \/ Respond(t)
        \/ Handle(t)
        \/ Backoff(t)
        \/ Adapter(t)

SpecResolve == InitResolve /\ [][NextResolve]_vars

(***************************************************************************)
(* The freeform parser alone: parse_plain_deck takes the lines of a text,  *)
(* one turn of its loop at a time.                                         *)
(***************************************************************************)
\* The lines a freeform text is made of here.
SolRing == <<Plain("Sol", 3), Plain("Ring", 4)>>
AtraxaLine == <<Comma("Atraxa", 7), Plain("Praetors'", 9), Plain("Voice", 5)>>
CommanderHeader == <<Plain("Commander", 9)>>
MainboardHeader == <<Plain("Mainboard", 9)>>
SideboardHeader == <<Plain("Sideboard", 9)>>
NameLine == <<Meta("name"), Plain("Stax", 4)>>
CommanderLine == <<Meta("commander"), Comma("Atraxa", 7), Plain("Atraxa", 6)>>
CommentLine == <<Word("cmt", "//", 0, 2, FALSE), Plain("ramp", 4)>>
CountLine == <<Plain("Creatures", 9), Word("pn", "(23)", 23, 4, FALSE)>>
IslandLine ==
    <<Num(1), Plain("Island", 6), Word("set", "(M21)", 0, 5, FALSE),
      Word("num", "123", 123, 3, FALSE)>>
DeckLines ==
    { CommanderHeader, MainboardHeader, SideboardHeader, NameLine,
      CommanderLine, CommentLine, CountLine, AtraxaLine, IslandLine,
      <<Num(1)>> \o SolRing, <<Num(0)>> \o SolRing, SolRing \o <<XNum(2)>> }

\* The longest freeform text, in lines.
MaxDeckLines == 4

\* Nothing is fetched and no deck box is read.
Offline ==
    /\ AllIdle
    /\ text = <<>>
    /\ disk = File("missing", NoCards)
    /\ data = _load(disk)
    /\ callers = {}
    /\ deck = {}
    /\ remote = "up"
    /\ name = [t \in Threads |-> <<>>]
    /\ attempt = [t \in Threads |-> 0]
    /\ backoff = [t \in Threads |-> 1]
    /\ asleep = [t \in Threads |-> 0]
    /\ resp = [t \in Threads |-> NoResponse]
    /\ ret = [t \in Threads |-> JNull]
    /\ returned = [k \in Keys |-> JNull]
    /\ seen = [t \in Threads |-> JNull]

InitParse ==
    /\ Offline
    /\ ParserIdle
    /\ LabelerIdle
    /\ AggregatorIdle
    /\ RunnerIdle

\* one turn of `for line in lines` on the next line of the text
ParseStep(line) ==
    /\ Len(done) < MaxDeckLines
    /\ parse' = ParseLine(parse, line)
    /\ done' = Append(done, [line |-> line, section |-> parse.section])
    /\ UNCHANGED << fetcher, resolver, labeler, aggregator, runner >>

NextParse == \E line \in DeckLines : ParseStep(line)

SpecParse == InitParse /\ [][NextParse]_vars

(***************************************************************************)
(* The label engine on its own: one engine labels one card record, call by *)
(* call of _add_label, and labels it again.                                *)
(***************************************************************************)
\* The phrases of the rules.
DrawACard == <<"draw", "a", "card">>
DrawCards == <<"draw", "cards">>
YouMayDraw == <<"you", "may", "draw">>
AddMana == <<"add", "mana">>

\* The rules and lists of DEFAULT_CONFIG these cards meet.
DefaultConfig ==
    Config(<< <<"fast_mana", {<<"A">>}>> >>,
           << <<"Draw", <<DrawCards, DrawACard>>>>, <<"Ritual", <<AddMana>>>> >>,
           << <<"Draw", <<YouMayDraw>>>> >>)

\* A configuration file whose lists and rules share names with each other
\* and with the labels of the type line.
OwnConfig ==
    Config(<< <<"Draw", {<<"A">>}>>, <<"IsLegendary", {<<"b">>}>> >>,
           << <<"ManaRock", <<AddMana>>>>, <<"Draw", <<DrawACard>>>> >>,
           << <<"Draw", <<DrawCards, YouMayDraw>>>>,
              <<"Loot", <<DrawACard>>>>, <<"ManaRock", <<AddMana>>>> >>)

Configs == {DefaultConfig, OwnConfig}

TypeLines == { <<>>, <<"Land">>, <<"Artifact">>, <<"Legendary", "Creature">>,
               <<"Artifact", "Creature">>, <<"Land", "Creature">> }

OracleTexts ==
    { <<>>,
      <<Said("Draw"), Said("a"), Said("card")>>,
      <<Said("You"), Said("may"), Said("draw"), Said("a"), Said("card")>>,
      <<Said("Draw"), Said("a"), Said("card"),
        Aside("you"), Aside("may"), Aside("draw")>>,
      <<Said("Add"), Said("mana"), Said("draw"), Said("cards")>> }

\* The card records labelled here.
CardJsons ==
    { CardJson(ty, o, kw, cmc, pm, legal) :
        ty \in TypeLines, o \in OracleTexts,
        kw \in { <<>>, <<"Flying", "flying">> }, cmc \in {NoValue, 2},
        pm \in { <<>>, <<"C">> }, legal \in {"legal", "not_legal"} }
      \cup { ErrorCard,
              Faced(<<"Creature">>,
                    << <<Said("You"), Said("may")>>,
                       <<Said("draw"), Said("a"), Said("card")>> >>) }

\* How often the card is labelled.
MaxRuns == 2

InitLabel ==
    /\ Offline
    /\ ParserIdle
    /\ AggregatorIdle
    /\ RunnerIdle
    /\ \E c \in Configs, j \in CardJsons, n \in Names \cup { <<"A">> } :
         subject = [config |-> c, card_json |-> j, name |-> n]
    /\ tags = <<>>
    /\ made = 0
    /\ results = <<>>

\* the calls label_card makes for the subject
SubjectCalls == Calls(subject.config, subject.card_json, subject.name)

\* label_card's next call of self._add_label
AddLabel ==
    /\ Len(results) < MaxRuns
    /\ made < Len(SubjectCalls)
    /\ tags' = _add_label(tags, SubjectCalls[made + 1])
    /\ made' = made + 1
    /\ UNCHANGED << fetcher, resolver, parser, aggregator, runner, subject,
                    results >>

\* return list(labels.values()), and the next call of label_card begins
ReturnLabels ==
    /\ Len(results) < MaxRuns
    /\ made = Len(SubjectCalls)
    /\ results' = Append(results, tags)
    /\ tags' = <<>>
    /\ made' = 0
    /\ UNCHANGED << fetcher, resolver, parser, aggregator, runner, subject >>

NextLabel == AddLabel \/ ReturnLabels

SpecLabel == InitLabel /\ [][NextLabel]_vars

(***************************************************************************)
(* The statistics on their own: Analyzer.analyze has resolved a deck and   *)
(* labelled its cards under the default rules, and aggregates and derives. *)
(***************************************************************************)
\* The record of the card source for a name: an artifact that produces
\* mana, a creature that draws a card, and no card at all.
CardFor(nm) ==
    IF _key(nm) = <<"a">>
    THEN CardJson(<<"Artifact">>, <<>>, <<>>, 1, <<"C">>, "legal")
    ELSE IF _key(nm) = <<"b">>
    THEN CardJson(<<"Legendary", "Creature">>,
                  <<Said("Draw"), Said("a"), Said("card")>>, <<>>, 2, <<>>,
                  "legal")
    ELSE ErrorCard

DeckNames == { <<"A">>, <<"a">>, <<"b">>, <<"c">> }

\* The most unique cards of a deck, and the most copies of one.
MaxCards == 3
MaxQty == 2

\* deck["cards"]: unique names in the order of entry, each with its copies.
\* parse_plain_deck counts 0 or more copies of a name; the adapters of the
\* hosted decks add up whatever numbers the reply states.
Quantities ==
    UNION { { q \in [1..n -> DeckNames \X ((0 - 1)..MaxQty)] :
                \A i, j \in 1..n : q[i][1] = q[j][1] => i = j } :
            n \in 0..MaxCards }

InitAggregate ==
    /\ Offline
    /\ ParserIdle
    /\ LabelerIdle
    /\ quantities \in Quantities
    /\ labels_by_card =
         [i \in 1..Len(quantities) |->
            <<quantities[i][1],
              label_card(DefaultConfig, CardFor(quantities[i][1]),
                         quantities[i][1])>>]
    /\ tally = <<>>
    /\ visited = 0
    /\ aggregate = NoAggregate
    /\ derived = NoDerived
    /\ matchup = NoMatchup
    /\ stage = "aggregate"
    /\ RunnerIdle

\* one turn of aggregate_deck's `for name, labs in labels_by_card.items()`
CountNext ==
    /\ stage = "aggregate"
    /\ visited < Len(labels_by_card)
    /\ LET nm == labels_by_card[visited + 1][1]
           labs == labels_by_card[visited + 1][2]
       IN tally' = CountCard(tally, labs, GetOr(quantities, nm, 1))
    /\ visited' = visited + 1
    /\ UNCHANGED << fetcher, resolver, parser, labeler, runner, quantities,
                    labels_by_card, aggregate, derived, matchup, stage >>

\* aggregate_deck's total_cards, percentages and return
ReturnAggregate ==
    /\ stage = "aggregate"
    /\ visited = Len(labels_by_card)
    /\ aggregate' = Aggregate(tally, quantities)
    /\ stage' = "derive"
    /\ UNCHANGED << fetcher, resolver, parser, labeler, runner, quantities,
                    labels_by_card, tally, visited, derived, matchup >>

\* derived = derive_archetypes(aggregate)
Derive ==
    /\ stage = "derive"
    /\ derived' = derive_archetypes(aggregate)
    /\ stage' = "done"
    /\ UNCHANGED << fetcher, resolver, parser, labeler, runner, quantities,
                    labels_by_card, tally, visited, aggregate, matchup >>

NextAggregate == CountNext \/ ReturnAggregate \/ Derive

SpecAggregate == InitAggregate /\ [][NextAggregate]_vars

(***************************************************************************)
(* One analysis run: on_analyze starts the thread of _analyze_thread,      *)
(* which calls analyze, writes the report, fetches the picture of the      *)
(* first commander and puts the result; an exception of any of these ends  *)
(* in the handler of the thread.  fetch_card is one step here, and the     *)
(* card source knows the cards of CardFor.                                 *)
(***************************************************************************)
\* The most unique cards of an analysed deck.
MaxUnique == 3

\* The decks detect_and_resolve_deck may return: unique names in the order
\* of entry, one copy each, the first card being the commander or not.
RunDecks ==
    UNION { { Deck(<<"Untitled">>, c, [i \in 1..n |-> <<names[i], 1>>]) :
                names \in {x \in [1..n -> DeckNames] :
                             \A i, j \in 1..n : x[i] = x[j] => i = j},
                c \in {FALSE} \cup (IF n > 0 THEN {TRUE} ELSE {}) } :
            n \in 0..MaxUnique }

\* The commander list of such a deck.
CommandersOf(d) ==
    IF d.commanders THEN <<d.cards[1][1]>> ELSE <<>>

InitRun ==
    /\ Offline
    /\ ParserIdle
    /\ LabelerIdle
    /\ RunnerIdle
    /\ quantities = <<>>
    /\ labels_by_card = <<>>
    /\ tally = <<>>
    /\ visited = 0
    /\ aggregate = NoAggregate
    /\ derived = NoDerived
    /\ matchup = NoMatchup
    /\ stage = "idle"

\* on_analyze starts the thread; analyze puts its first status
StartRun ==
    /\ stage = "idle"
    /\ status_q' = Put(status_q, "status", "Resolving deck")
    /\ stage' = "resolving"
    /\ UNCHANGED << fetcher, resolver, parser, labeler, quantities,
                    labels_by_card, tally, visited, aggregate, derived,
                    matchup, analysed, fetched, output, raised >>

\* deck = detect_and_resolve_deck(...), the log line, quantities,
\* commanders, unique_names and progress_init; or the resolver raises
ResolveDeck ==
    /\ stage = "resolving"
    /\ \/ \E d \in RunDecks :
            /\ analysed' = Deck(d.name, CommandersOf(d), d.cards)
            /\ quantities' = d.cards
            /\ status_q' = Put(Put(status_q, "log", "Deck resolved"),
                               "progress_init", Len(d.cards))
            /\ stage' = "loop"
            /\ UNCHANGED raised
       \/ /\ raised' = "resolve"
          /\ stage' = "raised"
          /\ UNCHANGED << analysed, quantities, status_q >>
    /\ UNCHANGED << fetcher, resolver, parser, labeler, labels_by_card, tally,
                    visited, aggregate, derived, matchup, fetched, output >>

\* the status of the next card and card_json = self.scryfall.fetch_card(nm),
\* from the cache or by a request, and the log line of an error object
FetchCard ==
    /\ stage = "loop"
    /\ Len(fetched) = Len(labels_by_card)
    /\ Len(labels_by_card) < Len(quantities)
    /\ LET nm == quantities[Len(labels_by_card) + 1][1]
           card_json == CardFor(nm)
       IN /\ fetched' = Append(fetched, <<nm, card_json>>)
          /\ \E hit \in BOOLEAN :
               status_q' = ErrorLog(GetStatus(Put(status_q, "status",
                                                  "Fetching card"), hit),
                                    card_json)
    /\ UNCHANGED << fetcher, resolver, parser, labeler, quantities,
                    labels_by_card, tally, visited, aggregate, derived,
                    matchup, stage, analysed, output, raised >>

\* labs = self.labeler.label_card(card_json, nm), labels_by_card[nm], the
\* card report and the progress event; or label_card raises
LabelCard ==
    /\ stage = "loop"
    /\ Len(fetched) = Len(labels_by_card) + 1
    /\ LET nm == fetched[Len(fetched)][1]
           card_json == fetched[Len(fetched)][2]
       IN \/ /\ labels_by_card' =
                  Append(labels_by_card,
                         <<nm, label_card(DefaultConfig, card_json, nm)>>)
             /\ status_q' = Put(status_q, "progress",
                                ProgressValue(Len(labels_by_card)))
             /\ UNCHANGED << stage, raised >>
          \/ /\ raised' = "label"
             /\ stage' = "raised"
             /\ UNCHANGED << labels_by_card, status_q >>
    /\ UNCHANGED << fetcher, resolver, parser, labeler, quantities, tally,
                    visited, aggregate, derived, matchup, analysed, fetched,
                    output >>

\* the loop is over: aggregate, derived and matchup, and analyze returns the
\* report
ReturnReport ==
    /\ stage = "loop"
    /\ Len(labels_by_card) = Len(quantities)
    /\ aggregate' = aggregate_deck(labels_by_card, quantities)
    /\ derived' = derive_archetypes(aggregate')
    /\ matchup' = matchup_analysis(aggregate')
    /\ stage' = "write"
    /\ UNCHANGED << fetcher, resolver, parser, labeler, quantities,
                    labels_by_card, tally, visited, status_q, analysed,
                    fetched, output, raised >>

\* ensure_output_dir, open(out_path, "w"), json.dump and the log line; or
\* one of them raises
WriteReport ==
    /\ stage = "write"
    /\ \/ /\ output' = "written"
          /\ status_q' = Put(status_q, "log", "Wrote report")
          /\ stage' = "picture"
          /\ UNCHANGED raised
       \/ /\ output' \in {"none", "cut short"}
          /\ raised' = "write"
          /\ stage' = "raised"
          /\ UNCHANGED status_q
    /\ UNCHANGED << fetcher, resolver, parser, labeler, quantities,
                    labels_by_card, tally, visited, aggregate, derived,
                    matchup, analysed, fetched >>

\* fetch_card of the first commander, if any, its picture, and the result
PutResult ==
    /\ stage = "picture"
    /\ IF analysed.commanders # <<>>
       THEN LET nm == analysed.commanders[1]
            IN /\ fetched' = Append(fetched, <<nm, CardFor(nm)>>)
               /\ \E hit \in BOOLEAN :
                    status_q' = Put(GetStatus(status_q, hit), "result",
                                    output)
       ELSE /\ status_q' = Put(status_q, "result", output)
            /\ UNCHANGED fetched
    /\ stage' = "done"
    /\ UNCHANGED << fetcher, resolver, parser, labeler, quantities,
                    labels_by_card, tally, visited, aggregate, derived,
                    matchup, analysed, output, raised >>

\* the handler of the thread
Except ==
    /\ stage = "raised"
    /\ status_q' = Caught(status_q, raised)
    /\ stage' = "done"
    /\ UNCHANGED << fetcher, resolver, parser, labeler, quantities,
                    labels_by_card, tally, visited, aggregate, derived,
                    matchup, analysed, fetched, output, raised >>

NextRun ==
    \/ StartRun
    \/ ResolveDeck
    \/ FetchCard
    \/ LabelCard
    \/ ReturnReport
    \/ WriteReport
    \/ PutResult
    \/ Except

SpecRun == InitRun /\ [][NextRun]_vars

\* LabelCard can take a step: its guard, for label_card returns a list for
\* every card dict and the raise changes stage
LabelCardEnabled ==
    stage = "loop" /\ Len(fetched) = Len(labels_by_card) + 1

\* ReturnReport can take a step: its guard, for aggregate_deck,
\* derive_archetypes and matchup_analysis are defined on every deck
ReturnReportEnabled ==
    stage = "loop" /\ Len(labels_by_card) = Len(quantities)

\* The thread of a run is scheduled until it ends, and every call it makes
\* returns: weak fairness of each step of the thread.  For LabelCard and
\* ReturnReport the condition is written out, []<>~ENABLED <<A>>_vars \/
\* []<><<A>>_vars, with the step's guard for ENABLED <<A>>_vars.
SpecRunFair ==
    /\ SpecRun
    /\ WF_vars(StartRun)
    /\ WF_vars(ResolveDeck)
    /\ WF_vars(FetchCard)
    /\ []<>~LabelCardEnabled \/ []<><<LabelCard>>_vars
    /\ []<>~ReturnReportEnabled \/ []<><<ReturnReport>>_vars
    /\ WF_vars(WriteReport)
    /\ WF_vars(PutResult)
    /\ WF_vars(Except)

(***************************************************************************)
(* matchup_analysis on its own, on the counts of an aggregate.             *)
(***************************************************************************)
\* The labels matchup_analysis reads.
MatchupLabels ==
    <<"IsCreature", "Counterspell", "BoardWipe", "free_interaction", "Tutor",
      "TutorAny", "fast_mana", "ManaRock", "Draw", "Recursion">>

\* The most labels of an aggregate here, and the highest count of one.
MaxLabels == 3
MaxCount == 2

\* The counts of the labels whose places are in S, in the order of entry.
RECURSIVE CountsFrom(_, _, _)
CountsFrom(S, f, i) ==
    IF i > Len(MatchupLabels) THEN <<>>
    ELSE (IF i \in S THEN << <<MatchupLabels[i], f[i]>> >> ELSE <<>>)
           \o CountsFrom(S, f, i + 1)

\* The counts are those of some deck: a label has the copies of the cards
\* that carry it, which a hosted deck may state as less than 0.
InitMatchup ==
    /\ Offline
    /\ ParserIdle
    /\ LabelerIdle
    /\ quantities = <<>>
    /\ labels_by_card = <<>>
    /\ tally = <<>>
    /\ visited = 0
    /\ \E S \in {T \in SUBSET (1..Len(MatchupLabels)) :
                    Cardinality(T) <= MaxLabels} :
         \E f \in [S -> (0 - 1)..MaxCount] :
           aggregate = [NoAggregate EXCEPT !.counts = CountsFrom(S, f, 1)]
    /\ derived = NoDerived
    /\ matchup = NoMatchup
    /\ stage = "matchup"
    /\ RunnerIdle

\* matchup = matchup_analysis(aggregate)
Matchup ==
    /\ stage = "matchup"
    /\ matchup' = matchup_analysis(aggregate)
    /\ stage' = "done"
    /\ UNCHANGED << fetcher, resolver, parser, labeler, runner, quantities,
                    labels_by_card, tally, visited, aggregate, derived >>

NextMatchup == Matchup

SpecMatchup == InitMatchup /\ [][NextMatchup]_vars

(***************************************************************************)
(* The claims about the fetcher, the cache and the card data source.       *)
(***************************************************************************)
\* An error result: the {"error": ...} of get_json or the remote's error
\* object.
IsError(r) ==
    /\ r.t = "dict"
    /\ \/ Truthy(DictGet(r, "error"))
       \/ DictGet(r, "object") = JStr("error")

\* The remote's outcome for a name is the same at every lookup.
Deterministic == remote \in {"up", "down"}

\* C1: when fetch_card is called for a name after a fetch_card for that name
\* has returned (the remote's outcome being deterministic, or the caller the
\* only one), the second call makes no request at all, so that the two calls
\* make at most the one lookup of the first, and it returns the record the
\* first returned.
C1_CacheIdempotence ==
    \A t \in Threads :
        ( /\ pc[t] = "done"
          /\ seen[t] # JNull
          /\ Deterministic \/ callers = {t} )
        => attempt[t] = 0 /\ ret[t] = seen[t]

\* a second call for a name has been answered from the cache, with a card
\* and with an error
C1_Witness ==
    \E t \in Threads :
        /\ pc[t] = "done" /\ attempt[t] = 0
        /\ seen[t] = CardRecord(name[t]) /\ ret[t] = seen[t]
        /\ callers = Threads

\* C2, as claimed: once fetch_card has returned an error result for a name,
\* every later fetch_card for the name makes no request and returns that
\* error record.
C2_ErrorsStayCached ==
    \A t \in Threads :
        (pc[t] = "done" /\ IsError(seen[t]))
        => attempt[t] = 0 /\ ret[t] = seen[t]

\* C3: one get_json call makes at most Retries attempts, and when the last of
\* them ends in the retry path as all before it did, the call returns
\* {"error": "request_failed"}.
C3_BoundedRetry ==
    /\ [](\A t \in Threads : attempt[t] <= Retries)
    /\ [][\A t \in Threads :
            (pc[t] = "backoff" /\ pc'[t] # "backoff" /\ attempt[t] >= Retries)
            => pc'[t] = "got" /\ ret'[t] = Sentinel]_vars

\* the fifth attempt has failed and get_json has returned the sentinel
C3_Witness ==
    \E t \in Threads :
        pc[t] = "got" /\ attempt[t] = Retries /\ ret[t] = Sentinel

\* The reply of thread t's attempt has just been handled.
Handled(t) == pc[t] = "handle" /\ pc'[t] # "handle"

\* C4, as claimed: a reply with status 429 or any 5xx, attempts remaining,
\* is followed by another attempt and not returned; a reply that ends the
\* call has neither status.
C4_Any5xxRetried ==
    [][\A t \in Threads :
        Handled(t) =>
          LET status == resp[t].status
              transient == status = 429 \/ status \in 500..599
          IN /\ (transient /\ attempt[t] < Retries) => pc'[t] = "backoff"
             /\ pc'[t] = "got" => ~transient]_vars

\* C4, amended: the retried statuses are 429, 500, 502, 503 and 504.  A reply
\* with one of them, attempts remaining, is followed by another attempt and
\* not returned; a reply that ends the call has none of them.
C4_ListedStatusesRetried ==
    [][\A t \in Threads :
        /\ Handled(t) =>
             LET status == resp[t].status
                 transient == status \in {429, 500, 502, 503, 504}
             IN /\ (transient /\ attempt[t] < Retries) => pc'[t] = "backoff"
                /\ pc'[t] = "got" => ~transient
        /\ (pc[t] = "backoff" /\ pc'[t] # "backoff" /\ attempt[t] < Retries)
             => pc'[t] = "gate" /\ attempt'[t] = attempt[t] + 1]_vars

\* a second attempt was made, after a retried reply, and it got a 501
C4_Witness ==
    \E t \in Threads :
        attempt[t] = 2 /\ pc[t] = "handle" /\ resp[t].status = 501

\* C5: every pass through _wait_rate_limit stamps _last at least MinInterval
\* after the stamp before it; a thread that enters sooner sleeps, holding the
\* lock, and no thread calls requests.get but from the stamp of its own
\* pass.
C5_SharedRateLimit ==
    [][\A t \in Threads :
        /\ (pc[t] = "stamp" /\ pc'[t] # "stamp")
             => elapsed >= MinInterval /\ http_lock = t
        /\ (pc[t] = "gate" /\ pc'[t] # "gate" /\ elapsed < MinInterval)
             => pc'[t] = "sleep" /\ asleep'[t] >= MinInterval - elapsed
        /\ (pc[t] = "sleep" /\ pc'[t] # "sleep") => asleep[t] = 0
        /\ (pc'[t] = "request" /\ pc[t] # "request") => pc[t] = "stamp"]_vars

\* a thread sleeps in the gate while the other waits for the lock
C5_Witness ==
    \E t, u \in Threads :
        /\ t # u
        /\ pc[t] = "sleep" /\ asleep[t] > 0 /\ http_lock = t
        /\ pc[u] = "gate"

\* C6, as claimed: fetch_card calls of two threads for the same uncached name
\* make at most one lookup between them and return the same record.
C6_SingleLookup ==
    \A t, u \in Threads :
        (t # u /\ name[t] # <<>> /\ name[t] = name[u])
        => /\ ~(attempt[t] >= 1 /\ attempt[u] >= 1)
           /\ (pc[t] = "done" /\ pc[u] = "done") => ret[t] = ret[u]

\* Two names are one card name up to trimming and case.
SameName(n, m) == lower(strip(n)) = lower(strip(m))

\* C7: when the write of the file fails in set(name, record), set returns,
\* the lock is free, and get of any spelling of the name gives the record.
C7_WriteFailureSwallowed ==
    [][\A t \in Threads :
        ( /\ pc[t] = "set_locked" /\ pc'[t] # "set_locked"
          /\ disk' # File("valid", data') )
        => /\ pc'[t] = "done"
           /\ cache_lock' = NoThread
           /\ \A n \in Names :
                SameName(n, name[t]) => CacheLookup(data', n) = ret[t]]_vars

\* set has returned after a failed write, and the other spelling of the name
\* finds the record
C7_Witness ==
    \E t \in Threads :
        /\ pc[t] = "done" /\ attempt[t] >= 1
        /\ disk # File("valid", data)
        /\ cache_lock = NoThread
        /\ name[t] = <<" ", "A">>
        /\ CacheLookup(data, <<"a">>) = ret[t]

(***************************************************************************)
(* The resolver                                                            *)
(***************************************************************************)
\* The text holds a deck link of the provider.
HasLink(p) ==
    \E i \in 1..Len(text) : \E k \in 1..Len(text[i]) : text[i][k].host = p

IsMoxfield(api) == api \in {"api.moxfield.com/v2/decks", "api.moxfield.com/decks"}

\* C8: detect_and_resolve_deck requests no Moxfield endpoint after an
\* Archidekt endpoint, and is in the Archidekt adapter only when the text has
\* no Moxfield link or the Moxfield adapter returned None; when it returns,
\* the deck is the one of the first adapter that returned a deck, and it is
\* the freeform parse of the text exactly when the text holds no provider
\* link or every adapter that was called returned None, every provider
\* whose link the text holds having been called.
C8_ResolverOrderAndFallback ==
    \A t \in Threads :
        /\ \A i, j \in 1..Len(tried[t]) :
             i < j /\ IsMoxfield(tried[t][j].api) => IsMoxfield(tried[t][i].api)
        /\ adapter[t] = "archidekt" \/ outcome[t]["archidekt"] # "untried"
             => (HasLink("moxfield") => outcome[t]["moxfield"] = "none")
        /\ pc[t] = "resolved" =>
             /\ via[t] = "moxfield" => outcome[t]["moxfield"] = "deck"
             /\ via[t] = "archidekt" =>
                  /\ outcome[t]["archidekt"] = "deck"
                  /\ outcome[t]["moxfield"] \in {"untried", "none"}
             /\ via[t] = "freeform" <=>
                  \/ ~HasLink("moxfield") /\ ~HasLink("archidekt")
                  \/ \A p \in {"moxfield", "archidekt"} :
                       outcome[t][p] # "untried" => outcome[t][p] = "none"
             /\ via[t] = "freeform" =>
                  /\ resolved[t] = parse_plain_deck(StripLines(text))
                  /\ \A p \in {"moxfield", "archidekt"} :
                       outcome[t][p] = IF HasLink(p) THEN "none" ELSE "untried"

\* The Moxfield adapter returned None and the resolver returned the deck of
\* the Archidekt adapter.
C8_Witness ==
    \E t \in Threads :
        /\ pc[t] = "resolved"
        /\ via[t] = "archidekt"
        /\ outcome[t]["moxfield"] = "none"
        /\ Len(tried[t]) = 3

\* C9: when get_json returns an error marker for the first candidate of the
\* Moxfield adapter, the adapter requests its second candidate next, and the
\* resolver has not returned; when it returns an error marker for the last
\* candidate of an adapter, no deck of that adapter is returned; and a
\* response with a card entry is accepted as the resolver's deck as soon as
\* its adapter reads it.
C9_NextCandidateOnError ==
    [][\A t \in Threads :
         pc[t] = "got" /\ adapter[t] # "none" /\ pc'[t] # "got" =>
           /\ IsErrorMarker(ret[t]) /\ adapter[t] = "moxfield" /\ cand[t] = 1 =>
                /\ pc'[t] = "gate"
                /\ adapter'[t] = "moxfield"
                /\ cand'[t] = 2
                /\ tried'[t][Len(tried'[t])] =
                     Asked(Endpoint("api.moxfield.com/decks", deck_id(link[t])))
                /\ Len(tried'[t]) = Len(tried[t]) + 1
                /\ via'[t] = "none"
           /\ IsErrorMarker(ret[t])
                /\ (adapter[t] = "archidekt" \/ cand[t] = 2) =>
                     /\ outcome'[t][adapter[t]] = "none"
                     /\ via'[t] # adapter[t]
           /\ ret[t] = FlatBody =>
                /\ pc'[t] = "resolved"
                /\ via'[t] = adapter[t]
                /\ resolved'[t].cards # <<>>
                /\ \A i \in 1..Len(resolved'[t].cards) :
                     resolved'[t].cards[i][1] = JStr("Sol Ring")
      ]_vars

\* The first Moxfield candidate came to an error marker and the deck of the
\* second was returned.
C9_Witness ==
    \E t \in Threads :
        /\ pc[t] = "resolved"
        /\ via[t] = "moxfield"
        /\ Len(tried[t]) = 2
        /\ tried[t][1] = [api |-> "api.moxfield.com/v2/decks", got |-> "error"]
        /\ tried[t][2] = [api |-> "api.moxfield.com/decks", got |-> "deck"]

\* C10: no response of a candidate endpoint makes an adapter raise.
C10_AdaptersFailSoft ==
    \A t \in Threads :
        /\ pc[t] # "raised"
        /\ \A p \in {"moxfield", "archidekt"} : outcome[t][p] # "raised"

(***************************************************************************)
(* The freeform parser                                                     *)
(***************************************************************************)
\* What each card line of DeckLines says, read by hand: the name of the
\* card and how many copies.
CardLines ==
    { <<Num(1)>> \o SolRing, <<Num(0)>> \o SolRing, SolRing \o <<XNum(2)>>,
      AtraxaLine, IslandLine }
SaidName(line) ==
    CASE line = AtraxaLine -> <<"Atraxa,", "Praetors'", "Voice">>
      [] line = IslandLine -> <<"Island">>
      [] OTHER             -> <<"Sol", "Ring">>
SaidCopies(line) ==
    CASE line = <<Num(0)>> \o SolRing -> 0
      [] line = SolRing \o <<XNum(2)>> -> 2
      [] OTHER                         -> 1
SaidNames == {SaidName(line) : line \in CardLines}

\* The quantity a deck records for a name, 0 when it has no entry.
QuantityOf(cards, nm) ==
    LET hits == {i \in 1..Len(cards) : cards[i][1] = nm}
    IN IF hits = {} THEN 0 ELSE cards[CHOOSE i \in hits : TRUE][2]

\* The copies of a name that the card lines of the text say, of the lines
\* up to i whose index is in counted.
RECURSIVE CopiesSaid(_, _, _)
CopiesSaid(nm, i, counted) ==
    IF i = 0 THEN 0
    ELSE CopiesSaid(nm, i - 1, counted)
           + (IF i \in counted /\ done[i].line \in CardLines
                 /\ SaidName(done[i].line) = nm
              THEN SaidCopies(done[i].line) ELSE 0)

\* The names with an entry in a deck's quantities.
Entries(cards) == {cards[i][1] : i \in 1..Len(cards)}

\* The names a sequence holds, each once, in the order of first occurrence.
RECURSIVE Distinct(_)
Distinct(seq) ==
    IF seq = <<>> THEN <<>>
    ELSE LET front == Distinct(SubSeq(seq, 1, Len(seq) - 1))
             last == seq[Len(seq)]
         IN IF \E i \in 1..Len(front) : front[i] = last THEN front
            ELSE Append(front, last)

\* C11: every quantity of the deck that parse_plain_deck returns is at least
\* 1.
C11_QuantitiesPositive ==
    \A i \in 1..Len(parse.deck.cards) : parse.deck.cards[i][2] >= 1

\* The text is a Commander header, card lines, a Mainboard header at line m
\* and card lines.
SectionsText(m) ==
    /\ m \in 2..Len(done)
    /\ done[1].line = CommanderHeader
    /\ done[m].line = MainboardHeader
    /\ \A i \in 2..Len(done) : i # m => done[i].line \in CardLines

\* C12, as claimed: for a text made of a Commander header, card lines, a
\* Mainboard header and card lines, the commander list holds the names under
\* the Commander header and the quantities hold exactly the cards under the
\* Mainboard header.
C12_OnlyMainboardCounted ==
    \A m \in 1..Len(done) :
        SectionsText(m) =>
            /\ parse.deck.commanders =
                 Distinct([i \in 1..m - 2 |-> SaidName(done[i + 1].line)])
            /\ Entries(parse.deck.cards) =
                 {SaidName(done[i].line) : i \in m + 1..Len(done)}
            /\ \A nm \in SaidNames :
                 QuantityOf(parse.deck.cards, nm) =
                   CopiesSaid(nm, Len(done), m + 1..Len(done))

\* C12: for a text made of a Commander header, card lines, a Mainboard
\* header and card lines, the commander list holds the names under the
\* Commander header, each once in the order of first occurrence, and the
\* quantities hold the cards under both headers, the lines under the
\* Commander header counted as cards too.
C12_SectionTransitions ==
    \A m \in 1..Len(done) :
        SectionsText(m) =>
            /\ parse.deck.commanders =
                 Distinct([i \in 1..m - 2 |-> SaidName(done[i + 1].line)])
            /\ Entries(parse.deck.cards) =
                 {SaidName(done[i].line) : i \in 2..Len(done) \ {m}}
            /\ \A nm \in SaidNames :
                 QuantityOf(parse.deck.cards, nm) =
                   CopiesSaid(nm, Len(done), 1..Len(done))

\* The text Commander / Atraxa, Praetors' Voice / Mainboard / 1 Sol Ring has
\* been parsed: Atraxa is the commander, and a card as Sol Ring is.
C12_Witness ==
    /\ [i \in 1..Len(done) |-> done[i].line] =
         <<CommanderHeader, AtraxaLine, MainboardHeader, <<Num(1)>> \o SolRing>>
    /\ parse.deck.commanders = << <<"Atraxa,", "Praetors'", "Voice">> >>
    /\ parse.deck.cards =
         << << <<"Atraxa,", "Praetors'", "Voice">>, 1 >>, << <<"Sol", "Ring">>, 1 >> >>

\* C13: no name occurs twice in the commander list of the deck that
\* parse_plain_deck returns.
C13_NoDuplicateCommanders ==
    \A i, j \in 1..Len(parse.deck.commanders) :
        i < j => parse.deck.commanders[i] # parse.deck.commanders[j]

\* The section headers and metadata lines of DeckLines.
HeaderLines == {CommanderHeader, MainboardHeader, SideboardHeader}
MetadataLines == {NameLine, CommanderLine}

\* C14: a turn of the loop in section ignore on a line that is neither a
\* section header nor a metadata line leaves the deck name, the commander
\* list, the quantities and the section as they are; and the section is no
\* longer ignore after a turn only when the line is a Commander or Mainboard
\* header or a `commander:` line.
C14_IgnoreDropsLines ==
    [][LET line == done'[Len(done')].line
       IN Len(done') = Len(done) + 1 /\ parse.section = "ignore" =>
            /\ line \notin HeaderLines \cup MetadataLines => parse' = parse
            /\ parse'.section # "ignore" =>
                 line \in {CommanderHeader, MainboardHeader, CommanderLine}
      ]_vars

\* After a Sideboard header a card line was taken and nothing was recorded.
C14_Witness ==
    /\ Len(done) = 3
    /\ done[1].line = <<Num(1)>> \o SolRing
    /\ done[2].line = SideboardHeader
    /\ done[3].line = IslandLine
    /\ parse.section = "ignore"
    /\ parse.deck.cards = << << <<"Sol", "Ring">>, 1 >> >>

\* C15: the quantity recorded for a name is the sum of the copies said by
\* the card lines with that name that were taken outside section ignore (a
\* line without a quantity counting 1), and only names of such lines have an
\* entry.
C15_QuantitiesAccumulate ==
    /\ \A nm \in SaidNames :
         QuantityOf(parse.deck.cards, nm) =
           CopiesSaid(nm, Len(done),
                      {i \in 1..Len(done) : done[i].section # "ignore"})
    /\ Entries(parse.deck.cards) =
         {SaidName(done[i].line) :
            i \in {j \in 1..Len(done) : /\ done[j].line \in CardLines
                                        /\ done[j].section # "ignore"}}

\* Two lines `1 Sol Ring` were taken and Sol Ring has quantity 2.
C15_Witness ==
    /\ [i \in 1..Len(done) |-> done[i].line] =
         << <<Num(1)>> \o SolRing, <<Num(1)>> \o SolRing >>
    /\ parse.deck.cards = << << <<"Sol", "Ring">>, 2 >> >>

(***************************************************************************)
(* The claims about the label engine.                                      *)
(***************************************************************************)
\* The calls made so far for a label, by their place.
CallsFor(lab) == {k \in 1..made : SubjectCalls[k].label = lab}

\* The call whose entry the rule keeps: the earliest of those of the
\* highest confidence.
Kept(lab) ==
    CHOOSE k \in CallsFor(lab) :
      \A m \in CallsFor(lab) :
        \/ SubjectCalls[m].confidence < SubjectCalls[k].confidence
        \/ SubjectCalls[m].confidence = SubjectCalls[k].confidence /\ k <= m

\* C16: the labels of a card hold each label identifier at most once, every
\* identifier _add_label was called for is among them, its entry is the one
\* of the call of the highest confidence for it and, among calls of that
\* confidence, of the earliest; and labelling the same record again returns
\* the same labels.
C16_ConfidenceMax ==
    /\ \A i, j \in 1..Len(tags) : tags[i].label = tags[j].label => i = j
    /\ \A k \in 1..made : \E i \in 1..Len(tags) :
          tags[i].label = SubjectCalls[k].label
    /\ \A i \in 1..Len(tags) :
          /\ CallsFor(tags[i].label) # {}
          /\ tags[i] = SubjectCalls[Kept(tags[i].label)]
    /\ \A i, j \in 1..Len(results) : results[i] = results[j]

\* The card was labelled twice; a curated list and a rule of the same name
\* both called _add_label for it, and the entry is the list's.
C16_Witness ==
    /\ Len(results) = MaxRuns
    /\ \E k, m \in 1..Len(SubjectCalls) :
         /\ k < m
         /\ SubjectCalls[k] = Label("Draw", 95, "curated:Draw")
         /\ SubjectCalls[m] = Label("Draw", 60, "regex:Draw")
    /\ \E i \in 1..Len(results[1]) :
         results[1][i] = Label("Draw", 95, "curated:Draw")

\* The oracle text of the subject matches a pattern of the rule and a
\* pattern of the negative list of the rule's name.
BothMatch(rule) ==
    LET oracle == normalize_oracle_text(subject.card_json)
    IN /\ AnyMatches(rule[2], oracle)
       /\ AnyMatches(NegativeOf(subject.config, rule[1]), oracle)

\* The rules of the subject's engine.
Rules == {subject.config.regex_rules[i] :
            i \in 1..Len(subject.config.regex_rules)}

\* A curated list holding the card, or an attribute of the card, gives the
\* label.
GivenOtherwise(lab) ==
    LET others == CuratedCalls(subject.config, subject.name)
                    \o StructuralCalls(subject.card_json)
                    \o KeywordCalls(subject.card_json)
                    \o ManaCalls(subject.card_json)
    IN \E k \in 1..Len(others) : others[k].label = lab

\* C17 as stated: when the oracle text matches a positive and a negative
\* pattern of a rule name, no label of that name is among the labels
\* label_card returns.
C17_VetoAbsolute ==
    \A i \in 1..Len(results) : \A rule \in Rules :
      BothMatch(rule) =>
        \A k \in 1..Len(results[i]) : results[i][k].label # rule[1]

\* C17, amended: when the oracle text matches a positive and a negative
\* pattern of a rule name, no label returned has that rule as its evidence,
\* and a label of that name is returned only when a curated list of that
\* name holds the card or an attribute of the card gives a label of that
\* name.
C17_VetoSuppressesRule ==
    \A i \in 1..Len(results) : \A rule \in Rules :
      BothMatch(rule) =>
        \A k \in 1..Len(results[i]) :
          /\ results[i][k].evidence # "regex:" \o rule[1]
          /\ results[i][k].label = rule[1] => GivenOtherwise(rule[1])

\* Under the default rules a card that says "You may draw a card" was
\* labelled, and Draw is not among its labels.
C17_Witness ==
    /\ subject.config = DefaultConfig
    /\ Len(results) > 0
    /\ \E rule \in Rules : rule[1] = "Draw" /\ BothMatch(rule)
    /\ \A k \in 1..Len(results[1]) : results[1][k].label # "Draw"

(***************************************************************************)
(* The claims about the aggregate and the derived profile.                 *)
(***************************************************************************)
\* The cards of the deck, by their place.
DeckCards == 1..Len(quantities)

\* The cards among whose labels a label of the set is, each as often as it
\* has labels of the set.
Carrying(labs) ==
    UNION { { <<i, k>> : k \in {m \in 1..Len(labels_by_card[i][2]) :
                                  labels_by_card[i][2][m].label \in labs} } :
            i \in DeckCards }

\* The copies of the cards of a set of <<card, label>> places.
RECURSIVE Copies(_)
Copies(places) ==
    IF places = {} THEN 0
    ELSE LET p == CHOOSE x \in places : TRUE
         IN quantities[p[1]][2] + Copies(places \ {p})

\* The copies of the whole deck.
AllCopies == Copies({<<i, 0>> : i \in DeckCards})

\* Every label of the deck.
DeckLabels ==
    UNION { { labels_by_card[i][2][k].label :
                k \in 1..Len(labels_by_card[i][2]) } : i \in DeckCards }

\* C18: in the aggregate the count of each label is the sum of the copies of
\* the cards that carry it, no other label is counted, total is the sum of
\* all copies (1 when that is 0), and each percentage is the count relative
\* to total, in hundredths of a percent.
C18_WeightedByCopies ==
    stage \in {"derive", "done"} =>
      /\ {aggregate.counts[i][1] : i \in 1..Len(aggregate.counts)} = DeckLabels
      /\ \A i \in 1..Len(aggregate.counts) :
           /\ aggregate.counts[i][2] = Copies(Carrying({aggregate.counts[i][1]}))
           /\ aggregate.percentages[i] =
                <<aggregate.counts[i][1],
                  Round(aggregate.counts[i][2] * 10000, aggregate.total)>>
      /\ Len(aggregate.percentages) = Len(aggregate.counts)
      /\ aggregate.total = IF AllCopies = 0 THEN 1 ELSE AllCopies

\* A deck of two unique cards, two copies of the one that draws, was
\* aggregated: Draw counts 2 of 3 copies, 66.67 percent.
C18_Witness ==
    /\ stage = "done"
    /\ Len(quantities) = 2
    /\ aggregate.total = 3
    /\ GetOr(aggregate.counts, "Draw", 0) = 2
    /\ GetOr(aggregate.percentages, "Draw", 0) = 6667

\* The categories of the derived profile.
Categories == DOMAIN Category

RECURSIVE SumDerived(_)
SumDerived(cs) ==
    IF cs = {} THEN 0
    ELSE LET c == CHOOSE x \in cs : TRUE
         IN derived[c] + SumDerived(cs \ {c})

\* C19: the percentages of the derived profile, Other included, sum to at
\* most 100 (1000 tenths).
C19_SumAtMost100 ==
    stage = "done" => SumDerived(Categories \cup {"Other"}) <= 1000

\* The copies the categories count, a card counting once for each of its
\* labels that a category sums.
RECURSIVE RawSum(_)
RawSum(cs) ==
    IF cs = {} THEN 0
    ELSE LET c == CHOOSE x \in cs : TRUE
         IN Copies(Carrying(Category[c])) + RawSum(cs \ {c})

\* C20: Other is the part that total minus the raw counts of the categories
\* is of total, and none when the raw counts exceed total; it is never
\* negative.
C20_OtherNotNegative ==
    stage = "done" =>
      /\ derived["Other"] >= 0
      /\ derived["Other"] =
           IF RawSum(Categories) >= aggregate.total THEN 0
           ELSE Round((aggregate.total - RawSum(Categories)) * 1000,
                      aggregate.total)

(***************************************************************************)
(* More claims about the freeform parser.                                  *)
(***************************************************************************)
\* The names of a commander list.
Listed(commanders) == {commanders[i] : i \in 1..Len(commanders)}

\* C25: a card line taken while the section is commander adds its copies to
\* the quantity of its name and appends the name to the commander list
\* unless the list holds it, so that right after the line the name is in
\* the commander list and in the quantities.
C25_CommanderLinesAreBoth ==
    [][\A line \in CardLines :
         (done' = Append(done, [line |-> line, section |-> "commander"])) =>
           LET nm == SaidName(line)
           IN /\ QuantityOf(parse'.deck.cards, nm) =
                   QuantityOf(parse.deck.cards, nm) + SaidCopies(line)
              /\ nm \in Entries(parse'.deck.cards)
              /\ nm \in Listed(parse'.deck.commanders)
              /\ parse'.deck.commanders =
                   IF nm \in Listed(parse.deck.commanders)
                   THEN parse.deck.commanders
                   ELSE Append(parse.deck.commanders, nm)]_vars

\* Under a Commander header Sol Ring was read twice over: it is a commander
\* once and its copies are added up.
C25_Witness ==
    /\ Len(done) = 3
    /\ done[1].line = CommanderHeader
    /\ done[2] = [line |-> <<Num(1)>> \o SolRing, section |-> "commander"]
    /\ done[3] = [line |-> SolRing \o <<XNum(2)>>, section |-> "commander"]
    /\ parse.deck.commanders = << <<"Sol", "Ring">> >>
    /\ parse.deck.cards = << << <<"Sol", "Ring">>, 3 >> >>

(***************************************************************************)
(* More claims about the fetcher and the cache.                            *)
(***************************************************************************)
\* C26: a thread inside requests.get holds neither the rate-limit lock nor
\* the cache lock; a thread holds the cache lock only inside
\* ScryfallCache.get and ScryfallCache.set, and the rate-limit lock only
\* inside _wait_rate_limit.
C26_NoLockAcrossRequest ==
    \A t \in Threads :
      /\ pc[t] = "request" => http_lock # t /\ cache_lock # t
      /\ cache_lock = t => pc[t] \in {"get_locked", "set_locked"}
      /\ http_lock = t => pc[t] \in {"sleep", "stamp"}

\* One thread is inside requests.get while the other holds the rate-limit
\* lock, and the cache lock is free.
C26_Witness ==
    \E t, u \in Threads :
      /\ pc[t] = "request"
      /\ http_lock = u
      /\ u # t
      /\ cache_lock = NoThread

(***************************************************************************)
(* The claims about the matchup heuristic.                                 *)
(***************************************************************************)
\* No label of the aggregate has a count below 0.
NonNegative ==
    \A i \in 1..Len(aggregate.counts) : aggregate.counts[i][2] >= 0

\* The raw scores of the aggregate and the highest of them.
Raw == RawScores(aggregate.counts)
Highest == CHOOSE x \in {Raw[k] : k \in DOMAIN Raw} :
             \A k \in DOMAIN Raw : Raw[k] <= x

\* C21: for an aggregate without negative counts, every archetype of the
\* highest raw score has the normalized score 1 (its raw score equals the
\* divisor) unless every raw score is 0, when every normalized score is 0;
\* and the highest raw score is 0 only when every raw score is 0.
C21_HighestIsOne ==
    (stage = "done" /\ NonNegative) =>
      /\ (\E k \in DOMAIN Raw : Raw[k] # 0) =>
           \A k \in DOMAIN Raw :
             Raw[k] = Highest =>
               /\ matchup.scores[k][1] = matchup.scores[k][2]
               /\ matchup.scores[k][2] # 0
      /\ (\A k \in DOMAIN Raw : Raw[k] = 0) =>
           \A k \in DOMAIN Raw :
             matchup.scores[k][1] = 0 /\ matchup.scores[k][2] # 0
      /\ Highest = 0 => \A k \in DOMAIN Raw : Raw[k] = 0

\* Two creatures, one counterspell and two draw spells were scored: Engine is
\* the highest with 2 of 2, Aggro has 1 of 2.
C21_Witness ==
    /\ stage = "done"
    /\ NonNegative
    /\ Raw = [Aggro |-> 1, Control |-> 1, Combo |-> 0, Engine |-> 2]
    /\ matchup.scores.Engine = <<2, 2>>
    /\ matchup.scores.Aggro = <<1, 2>>
    /\ matchup.strong_against = <<"Engine">>

\* C22, as claimed: for an aggregate without negative counts each of the
\* four normalized scores is at least 0 and at most 1.
C22_ScoresInUnitInterval ==
    (stage = "done" /\ NonNegative) =>
      \A k \in DOMAIN matchup.scores :
        /\ ~Less(matchup.scores[k], <<0, 1>>)
        /\ ~Less(<<1, 1>>, matchup.scores[k])

\* C22, amended: for an aggregate without negative counts each of the four
\* normalized scores is at most 1, those of Control, Combo and Engine are at
\* least 0 and that of Aggro is at least -1.
C22_ScoresAtMostOne ==
    (stage = "done" /\ NonNegative) =>
      \A k \in DOMAIN matchup.scores :
        /\ ~Less(<<1, 1>>, matchup.scores[k])
        /\ k # "Aggro" => ~Less(matchup.scores[k], <<0, 1>>)
        /\ ~Less(matchup.scores[k], <<0 - 1, 1>>)

\* An aggregate of two counterspells and one creature was scored: Aggro is
\* -1 of 2, below 0, and the weakest.
C22_Witness ==
    /\ stage = "done"
    /\ NonNegative
    /\ matchup.scores.Aggro = <<0 - 1, 2>>
    /\ matchup.scores.Control = <<2, 2>>
    /\ matchup.weak_against = <<"Aggro">>

(***************************************************************************)
(* The claims about an analysis run and its events.                        *)
(***************************************************************************)
\* The places of the events of some types on the channel.
Places(types) == {i \in 1..Len(status_q) : status_q[i].typ \in types}

\* C23: when writing the report file fails after analyze has returned the
\* report, the run ends with a result event and without an error event.
C23_WriteFailureNotFatal ==
    (stage = "done" /\ raised = "write") =>
      /\ Places({"result"}) # {}
      /\ Places({"error"}) = {}

\* The safety part of C24: the channel holds at most one terminal event, no
\* event follows it, a run that has ended has put one, and an exception
\* raised in the run ends it with an error event.
OneTerminalEvent ==
    /\ Cardinality(Places({"result", "error"})) <= 1
    /\ Places({"result", "error"}) \subseteq {Len(status_q)}
    /\ stage = "done" <=> Places({"result", "error"}) # {}
    /\ (stage = "done" /\ raised # "none") => Places({"error"}) # {}
    /\ (stage = "done" /\ raised = "none") => Places({"result"}) # {}

\* C24: every started run, its thread scheduled and its calls returning,
\* comes to put one terminal event, result or error, on the channel; the
\* channel never holds a second one nor any event after it; and an exception
\* raised during the run is reported as the error event.
C24_OneTerminalEventPerRun ==
    /\ []OneTerminalEvent
    /\ (stage = "resolving") ~> (Places({"result", "error"}) # {})

\* label_card raised at the second card of a run: the run ended with one
\* progress event and then the error event.
C24_Witness ==
    /\ stage = "done"
    /\ raised = "label"
    /\ Cardinality(Places({"progress"})) = 1
    /\ status_q[Len(status_q)].typ = "error"

\* The unique names of the deck, in order.
UniqueNames == [i \in 1..Len(quantities) |-> quantities[i][1]]

\* The deck has been resolved, and analyze has returned.
Resolved == stage \notin {"idle", "resolving"} /\ raised # "resolve"
Analyzed == Resolved /\ stage # "loop" /\ raised # "label"

\* The calls of fetch_card that analyze has made: all but that of
\* _analyze_thread for the picture.
AnalyzeFetches ==
    IF stage = "done" /\ raised = "none" /\ analysed.commanders # <<>>
    THEN Len(fetched) - 1
    ELSE Len(fetched)

\* C27: progress_init is put once, when the deck is resolved, with the
\* number of unique names and before any progress event; fetch_card is
\* called for the unique names in order, once each; the progress events
\* carry 1, 2, ... in order, each put after the fetch and the labelling of
\* its card; and when analyze has returned every unique name has been
\* fetched and the last progress event carries their number.
C27_ProgressOrder ==
    /\ Cardinality(Places({"progress_init"})) = IF Resolved THEN 1 ELSE 0
    /\ \A i \in Places({"progress_init"}) :
         /\ status_q[i].val = Len(quantities)
         /\ \A j \in Places({"progress"}) : i < j
    /\ \A j \in Places({"progress"}) :
         status_q[j].val = Cardinality({k \in Places({"progress"}) : k <= j})
    /\ AnalyzeFetches <= Len(quantities)
    /\ \A i \in 1..AnalyzeFetches : fetched[i][1] = UniqueNames[i]
    /\ Cardinality(Places({"progress"})) = Len(labels_by_card)
    /\ Len(labels_by_card) <= AnalyzeFetches
    /\ AnalyzeFetches <= Len(labels_by_card) + 1
    /\ Analyzed =>
         /\ AnalyzeFetches = Len(quantities)
         /\ Cardinality(Places({"progress"})) = Len(quantities)
         /\ \A j \in Places({"progress"}) :
              (\A k \in Places({"progress"}) : k <= j) =>
                status_q[j].val = Len(quantities)

\* analyze has returned the report of a deck of three unique cards: the
\* channel holds progress_init 3 and the progress events 1, 2, 3.
C27_Witness ==
    /\ stage = "write"
    /\ Len(quantities) = 3
    /\ Len(fetched) = 3
    /\ \E i \in Places({"progress_init"}) : status_q[i].val = 3
    /\ {status_q[j].val : j \in Places({"progress"})} = {1, 2, 3}
====
